---- MODULE Spec2Model ----
(***************************************************************************)
(* A model of the learning-management backend (FastAPI handlers over a     *)
(* MongoDB document store).  Every handler is a coroutine: it runs         *)
(* atomically between two awaits, and every await on the store is a point  *)
(* where another request may run.  A request is therefore a small state    *)
(* machine, one action per store round-trip together with the local code   *)
(* that follows it.  The store has no unique index and no transaction      *)
(* (src/app/db/mongodb.py and src/app/db/init_db.py create none).          *)
(***************************************************************************)
EXTENDS Integers, FiniteSets, Sequences, TLC

\* ------------------------------------------------------------- bounds
NumStudents == 3
NumTeachers == 2
NumReq == 2
MaxCourses == 1
MaxCapacity == 2
NumCodes == 1
NumDeletable == 1

Students == 1..NumStudents
Teachers == (NumStudents + 1)..(NumStudents + NumTeachers)
Admin == NumStudents + NumTeachers + 1
Req == 1..NumReq
Capacities == 1..MaxCapacity
CourseCodes == 1..NumCodes
CourseIds == 1..MaxCourses
\* Teachers are interchangeable: courses are created by the first one, and the
\* others are the teachers who own none.
Owners == {NumStudents + 1}

\* ------------------------------------------------------------- state
VARIABLES
    db,       \* the document store: one set of documents per collection
    nextId,   \* the store's _id generator, one sequence per collection
    now,      \* datetime.utcnow(), in ticks
    req,      \* the requests in flight, one record per slot
    last      \* the response returned since the last request arrived: [op, user, args, res]

vars == <<db, nextId, now, req, last>>

Collections ==
    {"users", "courses", "enrollments", "modules", "lessons", "materials",
     "assignments", "submissions", "attendance", "certificates",
     "student_certificates", "notifications", "student_profiles", "teacher_profiles",
     "password_reset"}

\* A Python None, and a find_one that matched nothing.
None == 0
NoDoc == [id |-> 0]

IdleReq == [op |-> "none", pc |-> "idle", user |-> None, args |-> NoDoc, loc |-> NoDoc]

NoResponse == [op |-> "none", user |-> None, args |-> NoDoc, res |-> "none"]

\* ------------------------------------------------------------- requests
Idle(r) == req[r].pc = "idle"

\* No request is between two of its store round-trips.
Quiescent == \A r \in Req : Idle(r)

\* A request arrives.  Slots are interchangeable: it takes the lowest idle one.
Begin(r, op, pc, user, args) ==
    /\ Idle(r)
    /\ \A q \in Req : q < r => ~Idle(q)
    /\ req' = [req EXCEPT ![r] = [op |-> op, pc |-> pc, user |-> user,
                                  args |-> args, loc |-> NoDoc]]
    /\ last' = NoResponse
    /\ UNCHANGED <<db, nextId, now>>

At(r, op, pc) == req[r].op = op /\ req[r].pc = pc

\* raise HTTPException(...) or return {...}: the request ends with its outcome.
Finish(r, res) ==
    /\ req' = [req EXCEPT ![r] = IdleReq]
    /\ last' = [op |-> req[r].op, user |-> req[r].user, args |-> req[r].args, res |-> res]

\* The coroutine goes on to its next await.
Goto(r, pc) == req' = [req EXCEPT ![r].pc = pc] /\ UNCHANGED last

GotoWith(r, pc, loc) == req' = [req EXCEPT ![r].pc = pc, ![r].loc = loc] /\ UNCHANGED last

\* A round-trip that only reads.
ReadOnly == UNCHANGED <<db, nextId, now>>

\* insert_one, the store generating the _id
Insert(coll, doc) ==
    /\ db' = [db EXCEPT ![coll] = @ \cup {[doc EXCEPT !.id = nextId[coll]]}]
    /\ nextId' = [nextId EXCEPT ![coll] = @ + 1]
    /\ UNCHANGED now

\* insert_one, with an _id chosen by the caller of this operator
InsertAs(coll, doc) ==
    /\ db' = [db EXCEPT ![coll] = @ \cup {doc}]
    /\ UNCHANGED <<nextId, now>>

\* update_one({"_id": id}, ...): the document with that _id, if any, becomes
\* set[d], the document after the $set or $inc
UpdateById(coll, id, set) ==
    /\ db' = [db EXCEPT ![coll] = {IF d.id = id THEN set[d] ELSE d : d \in @}]
    /\ UNCHANGED <<nextId, now>>

\* delete_one({"_id": id})
DeleteById(coll, id) ==
    /\ db' = [db EXCEPT ![coll] = {d \in @ : d.id # id}]
    /\ UNCHANGED <<nextId, now>>

\* The Identity & Role Gate (app/api/deps.py): the bearer credential
\* resolves to a stored user whose role is the required one.
Authorized(u, role) == \E d \in db.users : d.id = u /\ d.role = role

EnrollmentsOf(c, s) == {e \in db.enrollments : e.course_id = c /\ e.student_id = s}

EnrollmentsIn(c) == {e \in db.enrollments : e.course_id = c}

\* The lookup without the teacher_id filter.
OwnedCourseAnyTeacher(c, t) == {d \in db.courses : d.id = c}

\* find_one({"_id": course_id, "teacher_id": current_user.id})
OwnedCourse(c, t) == {d \in db.courses : d.id = c /\ d.teacher_id = t}

\* ------------------------------------------------------------- create_course
CreateCourseBegin(r, t, code, cap) ==
    /\ Authorized(t, "teacher")
    /\ Begin(r, "create_course", "find_code", t, [courseCode |-> code, maxStudents |-> cap])

CreateCourseStart(r, t, code, cap) ==
    /\ nextId["courses"] <= MaxCourses
    /\ CreateCourseBegin(r, t, code, cap)

CreateCourseFindCode(r) ==
    /\ At(r, "create_course", "find_code")
    /\ IF \E c \in db.courses : c.courseCode = req[r].args.courseCode
       THEN Finish(r, "Conflict")
       ELSE Goto(r, "insert")
    /\ ReadOnly

NewCourse(t, a) ==
    [id |-> None, teacher_id |-> t, courseCode |-> a.courseCode,
     maxStudents |-> a.maxStudents, studentsEnrolled |-> 0,
     hasModules |-> FALSE, certificateOffered |-> FALSE]

CreateCourseInsert(r) ==
    /\ At(r, "create_course", "insert")
    /\ Insert("courses", NewCourse(req[r].user, req[r].args))
    /\ Finish(r, "OK")

\* ------------------------------------------------------------- update_course
\* args.maxStudents / args.courseCode = None: the field is not part of the update.
UpdateCourseStart(r, t, c, cap, code) ==
    /\ Authorized(t, "teacher")
    /\ Begin(r, "update_course", "find_course", t,
             [course_id |-> c, maxStudents |-> cap, courseCode |-> code])

UpdateCourseFind(r) ==
    /\ At(r, "update_course", "find_course")
    /\ IF OwnedCourse(req[r].args.course_id, req[r].user) = {}
       THEN Finish(r, "NotFound")
       ELSE Goto(r, "update")
    /\ ReadOnly

SetCourse(d, a) ==
    [d EXCEPT !.maxStudents = IF a.maxStudents = None THEN @ ELSE a.maxStudents,
              !.courseCode = IF a.courseCode = None THEN @ ELSE a.courseCode]

UpdateCourseWrite(r) ==
    /\ At(r, "update_course", "update")
    /\ UpdateById("courses", req[r].args.course_id,
                  [d \in db.courses |-> SetCourse(d, req[r].args)])
    /\ Finish(r, "OK")

\* ------------------------------------------------------------- enroll_in_course
EnrollStart(r, s, c) ==
    /\ Authorized(s, "student")
    /\ Begin(r, "enroll", "find_course", s, [course_id |-> c])

\* course = await db.courses.find_one({"_id": courseId}); 404 if none
EnrollFindCourse(r) ==
    /\ At(r, "enroll", "find_course")
    /\ \/ /\ ~\E d \in db.courses : d.id = req[r].args.course_id
          /\ Finish(r, "NotFound")
       \/ \E d \in db.courses :
             /\ d.id = req[r].args.course_id
             /\ GotoWith(r, "find_existing", d)
    /\ ReadOnly

\* An off-by-one capacity test: a full course still admits one more student.
CourseFullStrict(course) == course.studentsEnrolled > course.maxStudents

\* if course["studentsEnrolled"] >= course["maxStudents"], on the course as read
CourseFull(course) == course.studentsEnrolled >= course.maxStudents

\* enroll_in_course without its "already enrolled" test.
EnrollFindExistingNoCheck(r) ==
    /\ At(r, "enroll", "find_existing")
    /\ IF CourseFull(req[r].loc)
       THEN Finish(r, "Capacity")
       ELSE Goto(r, "insert")
    /\ ReadOnly

\* existing_enrollment = await db.enrollments.find_one(...); then the two checks
EnrollFindExisting(r) ==
    /\ At(r, "enroll", "find_existing")
    /\ IF EnrollmentsOf(req[r].args.course_id, req[r].user) # {}
       THEN Finish(r, "Conflict")
       ELSE IF CourseFull(req[r].loc)
            THEN Finish(r, "Capacity")
            ELSE Goto(r, "insert")
    /\ ReadOnly

\* Enrollments are never deleted and nothing refers to an enrollment's _id, so
\* the _id only tells the documents of one (course, student) pair apart: it is
\* modelled as the document's ordinal within its pair.
NewEnrollment(c, s) ==
    [id |-> Cardinality(EnrollmentsOf(c, s)) + 1, course_id |-> c, student_id |-> s,
     progress |-> 0, status |-> "Active"]

\* await db.enrollments.insert_one(enrollment_data)
EnrollInsert(r) ==
    /\ At(r, "enroll", "insert")
    /\ InsertAs("enrollments", NewEnrollment(req[r].args.course_id, req[r].user))
    /\ Goto(r, "inc")

\* The counter update left out.
IncEnrolledLost(d) == d

\* {"$inc": {"studentsEnrolled": 1}}
IncEnrolled(d) == [d EXCEPT !.studentsEnrolled = @ + 1]

\* await db.courses.update_one({"_id": courseId}, {"$inc": {"studentsEnrolled": 1}})
EnrollInc(r) ==
    /\ At(r, "enroll", "inc")
    /\ UpdateById("courses", req[r].args.course_id, [d \in db.courses |-> IncEnrolled(d)])
    /\ Finish(r, "OK")

\* ------------------------------------------------------------- delete_user
DeleteUserStart(r, u) ==
    /\ Authorized(Admin, "admin")
    /\ Begin(r, "delete_user", "find_user", Admin, [user_id |-> u])

DeleteUserFind(r) ==
    /\ At(r, "delete_user", "find_user")
    /\ IF \E d \in db.users : d.id = req[r].args.user_id
       THEN Goto(r, "delete")
       ELSE Finish(r, "NotFound")
    /\ ReadOnly

DeleteUserWrite(r) ==
    /\ At(r, "delete_user", "delete")
    /\ DeleteById("users", req[r].args.user_id)
    /\ Finish(r, "OK")

\* ------------------------------------------------------------- initial states
\* The accounts: the superuser of create_first_superuser and the students and
\* teachers that signed up.
InitUsers ==
    {[id |-> s, role |-> "student"] : s \in Students}
        \cup {[id |-> t, role |-> "teacher"] : t \in Teachers}
        \cup {[id |-> Admin, role |-> "admin"]}

EmptyDb == [c \in Collections |-> IF c = "users" THEN InitUsers ELSE {}]

InitRest ==
    /\ nextId = [c \in Collections |-> 1]
    /\ now = 0
    /\ req = [r \in Req |-> IdleReq]
    /\ last = NoResponse

Init == db = EmptyDb /\ InitRest

\* ------------------------------------------------------------- the enrollment ledger
EnrollBegin(r) ==
    \/ \E t \in Owners, code \in CourseCodes, cap \in Capacities :
          CreateCourseStart(r, t, code, cap)
    \/ \E t \in Owners, c \in CourseIds, cap \in Capacities :
          UpdateCourseStart(r, t, c, cap, None)
    \/ \E s \in Students, c \in CourseIds : EnrollStart(r, s, c)
    \/ \E s \in 1..NumDeletable : DeleteUserStart(r, s)

EnrollStep(r) ==
    \/ CreateCourseFindCode(r)
    \/ CreateCourseInsert(r)
    \/ UpdateCourseFind(r)
    \/ UpdateCourseWrite(r)
    \/ EnrollFindCourse(r)
    \/ EnrollFindExisting(r)
    \/ EnrollInsert(r)
    \/ EnrollInc(r)
    \/ DeleteUserFind(r)
    \/ DeleteUserWrite(r)

\* Requests of the enrollment ledger, interleaved at every await.
NextEnroll == \E r \in Req : EnrollBegin(r) \/ EnrollStep(r)

SpecEnroll == Init /\ [][NextEnroll]_vars

\* The same requests, one at a time: a request starts only when none is in flight.
NextEnrollSeq == \E r \in Req : (Quiescent /\ EnrollBegin(r)) \/ EnrollStep(r)

SpecEnrollSeq == Init /\ [][NextEnrollSeq]_vars

\* ------------------------------------------------------------- enrollment ledger: claims
\* Request r takes a step / returns in this step.
Stepped(r) == req'[r] # req[r]

Returned(r) == ~Idle(r) /\ req'[r] = IdleReq

\* C1: in every reachable state, also after interleaved enroll requests of one
\* student, there is at most one enrollment per (course, student) pair.
C1_EnrollmentUnique ==
    \A c \in CourseIds, s \in Students :
        Cardinality({e \in db.enrollments : e.course_id = c /\ e.student_id = s}) <= 1

\* C2: one request at a time, an enroll by a student with no enrollment for the
\* course ends with Capacity and writes nothing when the stored course has
\* studentsEnrolled >= maxStudents, and otherwise goes on to insert; the insert
\* adds an enrollment and the counter update adds exactly 1.
C2_CapacityRejectsWithoutWrites ==
    [][\A r \in Req :
        /\ ( /\ At(r, "enroll", "find_existing") /\ Stepped(r)
             /\ ~\E e \in db.enrollments :
                    e.course_id = req[r].args.course_id /\ e.student_id = req[r].user )
           => \A d \in db.courses : d.id = req[r].args.course_id =>
                 IF d.studentsEnrolled >= d.maxStudents
                 THEN Returned(r) /\ last'.res = "Capacity" /\ db' = db
                 ELSE req'[r].pc = "insert"
        /\ (At(r, "enroll", "inc") /\ Stepped(r))
           => \A d \in db.courses : d.id = req[r].args.course_id =>
                 /\ [d EXCEPT !.studentsEnrolled = d.studentsEnrolled + 1] \in db'.courses
                 /\ Returned(r) /\ last'.res = "OK"
      ]_vars

C2_Witness ==
    \E d \in db.courses, a, b, c \in Students :
        /\ a # b /\ a # c /\ b # c
        /\ d.maxStudents = 2 /\ d.studentsEnrolled = 2
        /\ {e.student_id : e \in EnrollmentsIn(d.id)} = {a, b}
        /\ last = [op |-> "enroll", user |-> c, args |-> [course_id |-> d.id],
                   res |-> "Capacity"]

\* C3: one request at a time, an enroll for a pair that already has an enrollment
\* ends with Conflict and writes nothing; each pair has at most one enrollment,
\* created with progress 0 and status Active; and between requests the course's
\* studentsEnrolled counts one per enrolled pair.
C3_PairState ==
    /\ \A c \in CourseIds, s \in Students :
           Cardinality({e \in db.enrollments : e.course_id = c /\ e.student_id = s}) <= 1
    /\ \A e \in db.enrollments : e.progress = 0 /\ e.status = "Active"
    /\ Quiescent =>
           \A d \in db.courses :
               d.studentsEnrolled
                   = Cardinality({s \in Students :
                        \E e \in db.enrollments : e.course_id = d.id /\ e.student_id = s})

C3_SecondEnrollConflicts ==
    /\ []C3_PairState
    /\ [][\A r \in Req :
            ( /\ At(r, "enroll", "find_existing") /\ Stepped(r)
              /\ \E e \in db.enrollments :
                     e.course_id = req[r].args.course_id /\ e.student_id = req[r].user )
            => Returned(r) /\ last'.res = "Conflict" /\ db' = db
       ]_vars

C3_Witness ==
    \E d \in db.courses, s \in Students :
        /\ last = [op |-> "enroll", user |-> s, args |-> [course_id |-> d.id],
                   res |-> "Conflict"]
        /\ Cardinality(EnrollmentsOf(d.id, s)) = 1
        /\ d.studentsEnrolled = 1

\* C4: whenever no enroll request is between its enrollment insert and its
\* counter update, each course's studentsEnrolled is the number of enrollment
\* documents of the course.
C4_CounterMatchesLedger ==
    (\A r \in Req : ~At(r, "enroll", "inc"))
        => \A d \in db.courses :
              d.studentsEnrolled = Cardinality({e \in db.enrollments : e.course_id = d.id})

C4_Witness ==
    /\ \A r \in Req : ~At(r, "enroll", "inc")
    /\ \E d \in db.courses, e \in db.enrollments :
          /\ d.studentsEnrolled >= 2 /\ e.course_id = d.id
          /\ ~\E u \in db.users : u.id = e.student_id
          /\ last.op = "update_course" /\ last.res = "OK"

\* ------------------------------------------------------------- assignments: bounds
MaxTime == 1
MaxScore == 2
NumFeedbacks == 1
NumEnrolled == 2
MaxNotifications == 2

Times == 0..MaxTime
Scores == 1..MaxScore
\* feedback: Optional[str]; 0 is None
Feedbacks == 0..NumFeedbacks
AssignmentIds == {1}

\* datetime.utcnow() advances between any two steps.
Tick ==
    /\ now < MaxTime
    /\ now' = now + 1
    /\ UNCHANGED <<db, nextId, req, last>>

\* _id of a new notification: what it says and its ordinal among those that
\* say the same.  nextId["notifications"] is past the ordinal of every deleted
\* notification: the store never generates an _id twice.
NotificationOrdinals(type, recipient, sender, course) ==
    {d.id[5] : d \in {n \in db.notifications :
                         /\ n.type = type /\ n.recipient_id = recipient
                         /\ n.sender_id = sender /\ n.course_id = course}}

NewNotification(type, recipient, sender, course) ==
    LET used == NotificationOrdinals(type, recipient, sender, course)
        next == IF used = {} THEN 1 ELSE 1 + CHOOSE x \in used : \A y \in used : y <= x
        n == IF next < nextId["notifications"] THEN nextId["notifications"] ELSE next
    IN  [id |-> <<type, recipient, sender, course, n>>, type |-> type,
         recipient_id |-> recipient, sender_id |-> sender, course_id |-> course,
         read |-> FALSE]

\* The model stops taking requests that notify once the collection holds this many.
NotificationRoom == Cardinality(db.notifications) < MaxNotifications

SubmissionsOf(a, s) == {d \in db.submissions : d.assignment_id = a /\ d.student_id = s}

\* ------------------------------------------------------------- submit_assignment
\* The handler assigns to a local named status (assignments.py:266-269), which
\* shadows the imported fastapi.status in the whole function: building any of
\* its HTTPExceptions raises UnboundLocalError (before the assignment) or
\* AttributeError (after it), and the request ends as an internal server error.
SubmitStart(r, s, a) ==
    /\ Authorized(s, "student")
    /\ NotificationRoom
    /\ Begin(r, "submit", "find_assignment", s, [assignment_id |-> a])

SubmitFindAssignment(r) ==
    /\ At(r, "submit", "find_assignment")
    /\ \/ /\ ~\E d \in db.assignments : d.id = req[r].args.assignment_id
          /\ Finish(r, "InternalError")
       \/ \E d \in db.assignments :
             /\ d.id = req[r].args.assignment_id
             /\ GotoWith(r, "find_enrollment", [assignment |-> d])
    /\ ReadOnly

\* if datetime.utcnow() > assignment["deadline"]: "Late" else "Submitted"
SubmissionStatus(t, deadline) == IF t > deadline THEN "Late" ELSE "Submitted"

SubmitFindEnrollment(r) ==
    /\ At(r, "submit", "find_enrollment")
    /\ IF EnrollmentsOf(req[r].loc.assignment.course, req[r].user) = {}
       THEN Finish(r, "InternalError")
       ELSE GotoWith(r, "find_existing",
                     [assignment |-> req[r].loc.assignment, checked_at |-> now,
                      status |-> SubmissionStatus(now, req[r].loc.assignment.deadline)])
    /\ ReadOnly

SubmitFindExisting(r) ==
    /\ At(r, "submit", "find_existing")
    /\ IF SubmissionsOf(req[r].args.assignment_id, req[r].user) # {}
       THEN Finish(r, "InternalError")
       ELSE Goto(r, "insert")
    /\ ReadOnly

NewSubmission(a, s, status, t) ==
    [id |-> None, assignment_id |-> a, student_id |-> s, status |-> status,
     submitted_at |-> t, score |-> None, feedback |-> None, graded_at |-> None]

SubmitInsert(r) ==
    /\ At(r, "submit", "insert")
    /\ Insert("submissions",
              NewSubmission(req[r].args.assignment_id, req[r].user, req[r].loc.status, now))
    /\ Goto(r, "notify")

SubmitNotify(r) ==
    /\ At(r, "submit", "notify")
    /\ InsertAs("notifications",
              NewNotification("assignment", req[r].loc.assignment.teacher_id, req[r].user,
                              req[r].loc.assignment.course))
    /\ Finish(r, "OK")

\* ------------------------------------------------------------- grade_assignment
GradeStart(r, t, a, s, score, feedback) ==
    /\ Authorized(t, "teacher")
    /\ NotificationRoom
    /\ Begin(r, "grade", "find_assignment", t,
             [assignment_id |-> a, student_id |-> s, score |-> score, feedback |-> feedback])

OwnedAssignment(a, t) == {d \in db.assignments : d.id = a /\ d.teacher_id = t}

GradeFindAssignment(r) ==
    /\ At(r, "grade", "find_assignment")
    /\ \/ /\ OwnedAssignment(req[r].args.assignment_id, req[r].user) = {}
          /\ Finish(r, "NotFound")
       \/ \E d \in OwnedAssignment(req[r].args.assignment_id, req[r].user) :
             GotoWith(r, "find_submission", [assignment |-> d, submission |-> NoDoc])
    /\ ReadOnly

\* find_one: any one of the matching documents
GradeFindSubmission(r) ==
    /\ At(r, "grade", "find_submission")
    /\ \/ /\ SubmissionsOf(req[r].args.assignment_id, req[r].args.student_id) = {}
          /\ Finish(r, "NotFound")
       \/ \E d \in SubmissionsOf(req[r].args.assignment_id, req[r].args.student_id) :
             GotoWith(r, "update", [req[r].loc EXCEPT !.submission = d])
    /\ ReadOnly

\* A grade that leaves the status as it was.
SetGradeKeepStatus(d, a, t) ==
    [d EXCEPT !.score = a.score, !.feedback = a.feedback, !.graded_at = t]

\* A grade that inserts nothing but resets a graded submission.
SetGradeToggle(d, a, t) ==
    [d EXCEPT !.score = a.score, !.feedback = a.feedback,
              !.status = IF @ = "Graded" THEN "Submitted" ELSE "Graded", !.graded_at = t]

\* {"$set": {"score", "feedback", "status": "Graded", "graded_at"}}
SetGrade(d, a, t) ==
    [d EXCEPT !.score = a.score, !.feedback = a.feedback, !.status = "Graded",
              !.graded_at = t]

GradeUpdate(r) ==
    /\ At(r, "grade", "update")
    /\ UpdateById("submissions", req[r].loc.submission.id,
                  [d \in db.submissions |-> SetGrade(d, req[r].args, now)])
    /\ Goto(r, "notify")

GradeNotify(r) ==
    /\ At(r, "grade", "notify")
    /\ InsertAs("notifications",
              NewNotification("grade", req[r].args.student_id, req[r].user,
                              req[r].loc.assignment.course))
    /\ Finish(r, "OK")

\* ------------------------------------------------------------- update_assignment
\* args.deadline = -1: no deadline in the form
UpdateAssignmentStart(r, t, a, deadline) ==
    /\ Authorized(t, "teacher")
    /\ Begin(r, "update_assignment", "find_assignment", t,
             [assignment_id |-> a, deadline |-> deadline])

UpdateAssignmentFind(r) ==
    /\ At(r, "update_assignment", "find_assignment")
    /\ IF OwnedAssignment(req[r].args.assignment_id, req[r].user) = {}
       THEN Finish(r, "NotFound")
       ELSE Goto(r, "update")
    /\ ReadOnly

SetAssignment(d, a) == [d EXCEPT !.deadline = IF a.deadline = -1 THEN @ ELSE a.deadline]

UpdateAssignmentWrite(r) ==
    /\ At(r, "update_assignment", "update")
    /\ UpdateById("assignments", req[r].args.assignment_id,
                  [d \in db.assignments |-> SetAssignment(d, req[r].args)])
    /\ Goto(r, "find_updated")

\* updated_assignment = await find_one(...); updated_assignment["_id"] raises
\* TypeError when the assignment was deleted in between
UpdateAssignmentReload(r) ==
    /\ At(r, "update_assignment", "find_updated")
    /\ IF \E d \in db.assignments : d.id = req[r].args.assignment_id
       THEN Finish(r, "OK")
       ELSE Finish(r, "InternalError")
    /\ ReadOnly

\* ------------------------------------------------------------- delete_assignment
DeleteAssignmentStart(r, t, a) ==
    /\ Authorized(t, "teacher")
    /\ Begin(r, "delete_assignment", "find_assignment", t, [assignment_id |-> a])

DeleteAssignmentFind(r) ==
    /\ At(r, "delete_assignment", "find_assignment")
    /\ IF OwnedAssignment(req[r].args.assignment_id, req[r].user) = {}
       THEN Finish(r, "NotFound")
       ELSE Goto(r, "delete")
    /\ ReadOnly

DeleteAssignmentWrite(r) ==
    /\ At(r, "delete_assignment", "delete")
    /\ DeleteById("assignments", req[r].args.assignment_id)
    /\ Goto(r, "delete_submissions")

\* await db.assignment_submissions.delete_many({"assignment_id": ...})
DeleteAssignmentSubmissions(r) ==
    /\ At(r, "delete_assignment", "delete_submissions")
    /\ db' = [db EXCEPT !.submissions =
                 {d \in @ : d.assignment_id # req[r].args.assignment_id}]
    /\ UNCHANGED <<nextId, now>>
    /\ Finish(r, "OK")

\* ------------------------------------------------------------- assignments: specification
\* A course of the first teacher with its first NumEnrolled students enrolled,
\* as create_course and enroll_in_course leave it.
CourseWith(n) ==
    [id |-> 1, teacher_id |-> NumStudents + 1, courseCode |-> 1, maxStudents |-> MaxCapacity,
     studentsEnrolled |-> n, hasModules |-> FALSE, certificateOffered |-> FALSE]

EnrolledDb ==
    [EmptyDb EXCEPT !.courses = {CourseWith(NumEnrolled)},
                    !.enrollments =
                        {[id |-> 1, course_id |-> 1, student_id |-> s,
                          progress |-> 0, status |-> "Active"] : s \in 1..NumEnrolled}]

NewAssignment(c, t, deadline) ==
    [id |-> None, course |-> c, teacher_id |-> t, deadline |-> deadline]

\* ... and one assignment of the course, as create_assignment leaves it.
InitSubmit ==
    /\ \E deadline \in Times :
          db = [EnrolledDb EXCEPT !.assignments =
                   {[NewAssignment(1, NumStudents + 1, deadline) EXCEPT !.id = 1]}]
    /\ nextId = [c \in Collections |-> IF c \in {"courses", "assignments"} THEN 2 ELSE 1]
    /\ now = 0
    /\ req = [r \in Req |-> IdleReq]
    /\ last = NoResponse

SubmitBegin(r) ==
    \/ \E s \in Students, a \in AssignmentIds : SubmitStart(r, s, a)
    \/ \E t \in Owners, a \in AssignmentIds, s \in 1..NumEnrolled,
          score \in Scores, feedback \in Feedbacks :
          GradeStart(r, t, a, s, score, feedback)
    \/ \E t \in Owners, a \in AssignmentIds, deadline \in Times :
          UpdateAssignmentStart(r, t, a, deadline)
    \/ \E t \in Owners, a \in AssignmentIds : DeleteAssignmentStart(r, t, a)

SubmitStep(r) ==
    \/ SubmitFindAssignment(r)
    \/ SubmitFindEnrollment(r)
    \/ SubmitFindExisting(r)
    \/ SubmitInsert(r)
    \/ SubmitNotify(r)
    \/ GradeFindAssignment(r)
    \/ GradeFindSubmission(r)
    \/ GradeUpdate(r)
    \/ GradeNotify(r)
    \/ UpdateAssignmentFind(r)
    \/ UpdateAssignmentWrite(r)
    \/ UpdateAssignmentReload(r)
    \/ DeleteAssignmentFind(r)
    \/ DeleteAssignmentWrite(r)
    \/ DeleteAssignmentSubmissions(r)

NextSubmit == Tick \/ \E r \in Req : SubmitBegin(r) \/ SubmitStep(r)

SpecSubmit == InitSubmit /\ [][NextSubmit]_vars

NextSubmitSeq == Tick \/ \E r \in Req : (Quiescent /\ SubmitBegin(r)) \/ SubmitStep(r)

SpecSubmitSeq == InitSubmit /\ [][NextSubmitSeq]_vars

\* ------------------------------------------------------------- claims: submissions
SubmissionIds(subs) == {d.id : d \in subs}

\* C6: in every reachable state, also under interleaved submit requests of one
\* student, there is at most one submission per (assignment, student); and a
\* submit by a student who already has a submission for the assignment ends
\* with Conflict and inserts neither a submission nor a notification.
C6_SubmissionUnique ==
    /\ [](\A a \in AssignmentIds, s \in Students : Cardinality(SubmissionsOf(a, s)) <= 1)
    /\ [][\A r \in Req :
             /\ At(r, "submit", "find_existing")
             /\ Stepped(r)
             /\ SubmissionsOf(req[r].args.assignment_id, req[r].user) # {}
             => /\ Returned(r)
                /\ last'.res = "Conflict"
                /\ db' = db]_vars

\* C7: a submission is created with status Late when the time the handler
\* compares is after the deadline it read and Submitted otherwise; after that
\* no step changes a submission's status except from Submitted or Late to
\* Graded, whatever update_assignment does to the deadline.
C7_StatusMonotonic ==
    [][\A d \in db'.submissions :
          IF d.id \in SubmissionIds(db.submissions)
          THEN \A e \in db.submissions :
                  e.id = d.id =>
                     \/ d.status = e.status
                     \/ e.status \in {"Submitted", "Late"} /\ d.status = "Graded"
          ELSE \E r \in Req :
                  /\ At(r, "submit", "insert")
                  /\ d.assignment_id = req[r].args.assignment_id
                  /\ d.student_id = req[r].user
                  /\ d.status = IF req[r].loc.checked_at > req[r].loc.assignment.deadline
                                THEN "Late" ELSE "Submitted"]_vars

\* A graded submission handed in after what the deadline has since been changed to.
C7_Witness ==
    /\ last.op = "update_assignment"
    /\ last.res = "OK"
    /\ \E d \in db.submissions, a \in db.assignments :
          /\ a.id = d.assignment_id
          /\ d.status = "Graded"
          /\ d.submitted_at > a.deadline

\* C8: the write of grade_assignment leaves the submission it found Graded with
\* the request's score and feedback, whether or not it was graded before,
\* changes no other submission, and no step of a grade request adds or removes
\* a submission.
C8_GradeOverwrites ==
    [][\A r \in Req :
          /\ req[r].op = "grade" /\ Stepped(r)
             => SubmissionIds(db'.submissions) = SubmissionIds(db.submissions)
          /\ At(r, "grade", "update") /\ Stepped(r)
             => \A d \in db'.submissions :
                   IF d.id = req[r].loc.submission.id
                   THEN /\ d.status = "Graded"
                        /\ d.score = req[r].args.score
                        /\ d.feedback = req[r].args.feedback
                   ELSE d \in db.submissions]_vars

\* A second grade has overwritten the score and feedback of the first, which
\* has returned in the meantime; the pair still has one submission.
C8_Witness ==
    \E r \in Req, d \in db.submissions :
       /\ At(r, "grade", "notify")
       /\ last.op = "grade" /\ last.res = "OK"
       /\ last.args.student_id = req[r].args.student_id
       /\ last.args.score # req[r].args.score
       /\ last.args.feedback # req[r].args.feedback
       /\ SubmissionsOf(req[r].args.assignment_id, req[r].args.student_id) = {d}
       /\ d.status = "Graded"
       /\ d.score = req[r].args.score
       /\ d.feedback = req[r].args.feedback

\* ------------------------------------------------------------- attendance: bounds
NumDates == 1
NumNotes == 1
MaxBulk == 2

Dates == 1..NumDates
\* time, note: Optional[str]; 0 is None
Notes == 0..NumNotes
AttendanceStatuses == {"Present", "Absent"}
\* the forms sent: present without remarks, or absent with a time and a note
Marks == {[status |-> "Present", time |-> None, note |-> None]}
            \cup {[status |-> "Absent", time |-> n, note |-> n] : n \in Notes \ {None}}
BulkRecord == [student_id : Students, mark : Marks]
\* the forms sent list each student once, in the order of the roll
BulkRecords ==
    {records \in UNION {[1..n -> BulkRecord] : n \in 1..MaxBulk} :
        \A i, j \in DOMAIN records : i < j => records[i].student_id < records[j].student_id}

\* find_one({"course_id", "student_id", "date"})
AttendanceOf(c, s, date) ==
    {d \in db.attendance : d.course_id = c /\ d.student_id = s /\ d.date = date}

\* {"$set": {"status", "time", "note"}}
SetMark(d, mark) == [d EXCEPT !.status = mark.status, !.time = mark.time, !.note = mark.note]

\* _id of a new record: the key and the record's ordinal within the key
\* (attendance records are never deleted)
NewAttendance(c, s, date, mark, t) ==
    [id |-> <<c, s, date, Cardinality(AttendanceOf(c, s, date)) + 1>>,
     course_id |-> c, student_id |-> s, date |-> date, status |-> mark.status,
     time |-> mark.time, note |-> mark.note, recorded_by |-> t]

\* ------------------------------------------------------------- record_attendance
RecordStart(r, t, c, s, date, mark) ==
    /\ Authorized(t, "teacher")
    /\ Begin(r, "record_attendance", "find_course", t,
             [course_id |-> c, student_id |-> s, date |-> date, mark |-> mark])

RecordFindCourse(r) ==
    /\ At(r, "record_attendance", "find_course")
    /\ IF OwnedCourse(req[r].args.course_id, req[r].user) = {}
       THEN Finish(r, "NotFound")
       ELSE Goto(r, "find_enrollment")
    /\ ReadOnly

RecordFindEnrollment(r) ==
    /\ At(r, "record_attendance", "find_enrollment")
    /\ IF EnrollmentsOf(req[r].args.course_id, req[r].args.student_id) = {}
       THEN Finish(r, "NotFound")
       ELSE Goto(r, "find_existing")
    /\ ReadOnly

\* existing_record = await db.attendance.find_one(...): any one of the matches
RecordFindExisting(r) ==
    /\ At(r, "record_attendance", "find_existing")
    /\ LET a == req[r].args
       IN  \/ /\ AttendanceOf(a.course_id, a.student_id, a.date) = {}
              /\ Goto(r, "insert")
           \/ \E d \in AttendanceOf(a.course_id, a.student_id, a.date) :
                 GotoWith(r, "update", [existing |-> d.id])
    /\ ReadOnly

RecordUpdate(r) ==
    /\ At(r, "record_attendance", "update")
    /\ UpdateById("attendance", req[r].loc.existing,
                  [d \in db.attendance |-> SetMark(d, req[r].args.mark)])
    /\ Finish(r, "Updated")

RecordInsert(r) ==
    /\ At(r, "record_attendance", "insert")
    /\ LET a == req[r].args
       IN  InsertAs("attendance",
                  NewAttendance(a.course_id, a.student_id, a.date, a.mark, req[r].user))
    /\ Finish(r, "OK")

\* ------------------------------------------------------------- bulk_record_attendance
BulkStart(r, t, c, date, records) ==
    /\ Authorized(t, "teacher")
    /\ Begin(r, "bulk_record_attendance", "find_course", t,
             [course_id |-> c, date |-> date, records |-> records])

\* loc.i is the position of the for loop in attendance_data.records
BulkFindCourse(r) ==
    /\ At(r, "bulk_record_attendance", "find_course")
    /\ IF OwnedCourse(req[r].args.course_id, req[r].user) = {}
       THEN Finish(r, "NotFound")
       ELSE GotoWith(r, "find_enrollment", [i |-> 1, existing |-> <<>>])
    /\ ReadOnly

\* End of one pass of the loop body: the next record, or the return after the last.
BulkAdvance(r) ==
    IF req[r].loc.i = Len(req[r].args.records)
    THEN Finish(r, "OK")
    ELSE GotoWith(r, "find_enrollment", [i |-> req[r].loc.i + 1, existing |-> <<>>])

BulkCurrent(r) == req[r].args.records[req[r].loc.i]

BulkFindEnrollment(r) ==
    /\ At(r, "bulk_record_attendance", "find_enrollment")
    /\ IF EnrollmentsOf(req[r].args.course_id, BulkCurrent(r).student_id) = {}
       THEN BulkAdvance(r)
       ELSE Goto(r, "find_existing")
    /\ ReadOnly

BulkFindExisting(r) ==
    /\ At(r, "bulk_record_attendance", "find_existing")
    /\ LET a == req[r].args
           s == BulkCurrent(r).student_id
       IN  \/ /\ AttendanceOf(a.course_id, s, a.date) = {}
              /\ Goto(r, "insert")
           \/ \E d \in AttendanceOf(a.course_id, s, a.date) :
                 GotoWith(r, "update", [req[r].loc EXCEPT !.existing = d.id])
    /\ ReadOnly

BulkUpdate(r) ==
    /\ At(r, "bulk_record_attendance", "update")
    /\ UpdateById("attendance", req[r].loc.existing,
                  [d \in db.attendance |-> SetMark(d, BulkCurrent(r).mark)])
    /\ BulkAdvance(r)

BulkInsert(r) ==
    /\ At(r, "bulk_record_attendance", "insert")
    /\ LET a == req[r].args
       IN  InsertAs("attendance",
                  NewAttendance(a.course_id, BulkCurrent(r).student_id, a.date,
                                BulkCurrent(r).mark, req[r].user))
    /\ BulkAdvance(r)

\* ------------------------------------------------------------- attendance: specification
InitAttendance == db = EnrolledDb /\ InitRest

AttendanceBegin(r) ==
    \/ \E t \in Owners, c \in CourseIds, s \in Students, date \in Dates, mark \in Marks :
          RecordStart(r, t, c, s, date, mark)
    \/ \E t \in Owners, c \in CourseIds, date \in Dates, records \in BulkRecords :
          BulkStart(r, t, c, date, records)

AttendanceStep(r) ==
    \/ RecordFindCourse(r)
    \/ RecordFindEnrollment(r)
    \/ RecordFindExisting(r)
    \/ RecordUpdate(r)
    \/ RecordInsert(r)
    \/ BulkFindCourse(r)
    \/ BulkFindEnrollment(r)
    \/ BulkFindExisting(r)
    \/ BulkUpdate(r)
    \/ BulkInsert(r)

NextAttendance == \E r \in Req : AttendanceBegin(r) \/ AttendanceStep(r)

SpecAttendance == InitAttendance /\ [][NextAttendance]_vars

NextAttendanceSeq == \E r \in Req : (Quiescent /\ AttendanceBegin(r)) \/ AttendanceStep(r)

SpecAttendanceSeq == InitAttendance /\ [][NextAttendanceSeq]_vars

\* ------------------------------------------------------------- claims: attendance
\* The key and the mark of the write a request is about to make, if it is at one.
AttendanceWrite(r) ==
    IF req[r].op = "record_attendance"
    THEN [course_id |-> req[r].args.course_id, student_id |-> req[r].args.student_id,
          date |-> req[r].args.date, mark |-> req[r].args.mark]
    ELSE [course_id |-> req[r].args.course_id, student_id |-> BulkCurrent(r).student_id,
          date |-> req[r].args.date, mark |-> BulkCurrent(r).mark]

\* C9: in every reachable state, also under interleaved record_attendance and
\* bulk_record_attendance calls, there is at most one attendance record per
\* (course, student, date); a write for a key that has a record inserts
\* nothing and leaves the key's record with the status, time and note sent.
C9_AttendanceUnique ==
    /\ [](\A c \in CourseIds, s \in Students, date \in Dates :
             Cardinality(AttendanceOf(c, s, date)) <= 1)
    /\ [][\A r \in Req :
             /\ req[r].op \in {"record_attendance", "bulk_record_attendance"}
             /\ req[r].pc \in {"update", "insert"}
             /\ Stepped(r)
             => LET w == AttendanceWrite(r)
                IN  AttendanceOf(w.course_id, w.student_id, w.date) # {}
                    => /\ {d.id : d \in db'.attendance} = {d.id : d \in db.attendance}
                       /\ \A d \in db'.attendance :
                             d.course_id = w.course_id /\ d.student_id = w.student_id
                                /\ d.date = w.date
                             => /\ d.status = w.mark.status
                                /\ d.time = w.mark.time
                                /\ d.note = w.mark.note]_vars

\* ------------------------------------------------------------- create_certificate_template
TemplatesOf(c) == {d \in db.certificates : d.course_id = c}

IssuedOf(cert, s) ==
    {d \in db.student_certificates : d.certificate_id = cert /\ d.student_id = s}

CreateTemplateStart(r, t, c) ==
    /\ Authorized(t, "teacher")
    /\ Begin(r, "create_certificate_template", "find_course", t, [course_id |-> c])

CreateTemplateFindCourse(r) ==
    /\ At(r, "create_certificate_template", "find_course")
    /\ IF OwnedCourse(req[r].args.course_id, req[r].user) = {}
       THEN Finish(r, "NotFound")
       ELSE Goto(r, "find_existing")
    /\ ReadOnly

CreateTemplateFindExisting(r) ==
    /\ At(r, "create_certificate_template", "find_existing")
    /\ IF TemplatesOf(req[r].args.course_id) # {}
       THEN Finish(r, "Conflict")
       ELSE Goto(r, "insert")
    /\ ReadOnly

NewTemplate(c) == [id |-> None, course_id |-> c]

CreateTemplateInsert(r) ==
    /\ At(r, "create_certificate_template", "insert")
    /\ Insert("certificates", NewTemplate(req[r].args.course_id))
    /\ Goto(r, "update_course")

\* {"$set": {"certificateOffered": True, ...}}
SetCertificateOffered(d) == [d EXCEPT !.certificateOffered = TRUE]

CreateTemplateUpdateCourse(r) ==
    /\ At(r, "create_certificate_template", "update_course")
    /\ UpdateById("courses", req[r].args.course_id,
                  [d \in db.courses |-> SetCertificateOffered(d)])
    /\ Finish(r, "OK")

\* ------------------------------------------------------------- issue_certificate
IssueStart(r, t, c, s) ==
    /\ Authorized(t, "teacher")
    /\ Begin(r, "issue_certificate", "find_course", t, [course_id |-> c, student_id |-> s])

IssueFindCourse(r) ==
    /\ At(r, "issue_certificate", "find_course")
    /\ IF OwnedCourse(req[r].args.course_id, req[r].user) = {}
       THEN Finish(r, "NotFound")
       ELSE Goto(r, "find_template")
    /\ ReadOnly

\* certificate = await db.certificates.find_one({"course_id": ...}): any one match
IssueFindTemplate(r) ==
    /\ At(r, "issue_certificate", "find_template")
    /\ \/ /\ TemplatesOf(req[r].args.course_id) = {}
          /\ Finish(r, "NotFound")
       \/ \E d \in TemplatesOf(req[r].args.course_id) :
             GotoWith(r, "find_enrollment", [certificate |-> d.id])
    /\ ReadOnly

\* The enrollment lookup left out.
IssueFindEnrollmentNoCheck(r) ==
    /\ At(r, "issue_certificate", "find_enrollment")
    /\ Goto(r, "find_existing")
    /\ ReadOnly

IssueFindEnrollment(r) ==
    /\ At(r, "issue_certificate", "find_enrollment")
    /\ IF EnrollmentsOf(req[r].args.course_id, req[r].args.student_id) = {}
       THEN Finish(r, "NotFound")
       ELSE Goto(r, "find_existing")
    /\ ReadOnly

IssueFindExisting(r) ==
    /\ At(r, "issue_certificate", "find_existing")
    /\ IF IssuedOf(req[r].loc.certificate, req[r].args.student_id) # {}
       THEN Finish(r, "Conflict")
       ELSE Goto(r, "find_student")
    /\ ReadOnly

IssueFindStudent(r) ==
    /\ At(r, "issue_certificate", "find_student")
    /\ IF \E u \in db.users : u.id = req[r].args.student_id
       THEN Goto(r, "generate")
       ELSE Finish(r, "NotFound")
    /\ ReadOnly

\* certificate_url = await generate_certificate(...): writes a file, no document
IssueGenerate(r) ==
    /\ At(r, "issue_certificate", "generate")
    /\ Goto(r, "insert")
    /\ ReadOnly

\* _id of a new issued certificate: its pair and its ordinal within the pair
\* (issued certificates are never deleted)
NewStudentCertificate(cert, s, c) ==
    [id |-> <<cert, s, Cardinality(IssuedOf(cert, s)) + 1>>,
     certificate_id |-> cert, student_id |-> s, course_id |-> c,
     status |-> "Available"]

IssueInsert(r) ==
    /\ At(r, "issue_certificate", "insert")
    /\ InsertAs("student_certificates",
              NewStudentCertificate(req[r].loc.certificate, req[r].args.student_id,
                                    req[r].args.course_id))
    /\ Goto(r, "notify")

IssueNotify(r) ==
    /\ At(r, "issue_certificate", "notify")
    /\ InsertAs("notifications",
              NewNotification("certificate", req[r].args.student_id, req[r].user,
                              req[r].args.course_id))
    /\ Finish(r, "OK")

\* ------------------------------------------------------------- certificates: specification
InitCert ==
    /\ db = EnrolledDb
    /\ nextId = [c \in Collections |-> IF c = "courses" THEN 2 ELSE 1]
    /\ now = 0
    /\ req = [r \in Req |-> IdleReq]
    /\ last = NoResponse

CertBegin(r) ==
    \/ \E t \in Owners, c \in CourseIds : CreateTemplateStart(r, t, c)
    \/ \E t \in Owners, c \in CourseIds, s \in Students : IssueStart(r, t, c, s)
    \/ \E u \in 1..NumDeletable : DeleteUserStart(r, u)

CertStep(r) ==
    \/ CreateTemplateFindCourse(r)
    \/ CreateTemplateFindExisting(r)
    \/ CreateTemplateInsert(r)
    \/ CreateTemplateUpdateCourse(r)
    \/ IssueFindCourse(r)
    \/ IssueFindTemplate(r)
    \/ IssueFindEnrollment(r)
    \/ IssueFindExisting(r)
    \/ IssueFindStudent(r)
    \/ IssueGenerate(r)
    \/ IssueInsert(r)
    \/ IssueNotify(r)
    \/ DeleteUserFind(r)
    \/ DeleteUserWrite(r)

NextCert == \E r \in Req : CertBegin(r) \/ CertStep(r)

SpecCert == InitCert /\ [][NextCert]_vars

NextCertSeq == \E r \in Req : (Quiescent /\ CertBegin(r)) \/ CertStep(r)

SpecCertSeq == InitCert /\ [][NextCertSeq]_vars

\* ------------------------------------------------------------- claims: certificates
\* C10: an issue_certificate call for a (template, student) pair that has an
\* issued certificate ends with Conflict and writes nothing, and in every
\* reachable state, also after interleaved issue requests, there is at most
\* one issued certificate per (template, student).
C10_IssuedUnique ==
    /\ [](\A cert \in db.certificates, s \in Students :
             Cardinality(IssuedOf(cert.id, s)) <= 1)
    /\ [][\A r \in Req :
             /\ At(r, "issue_certificate", "find_existing")
             /\ Stepped(r)
             /\ IssuedOf(req[r].loc.certificate, req[r].args.student_id) # {}
             => /\ Returned(r)
                /\ last'.res = "Conflict"
                /\ db' = db]_vars

\* ------------------------------------------------------------- course content: bounds
MaxModules == 2
MaxLessons == 2
MaxMaterials == 2
MaxAssignments == 2
MaxContent == 5

ModuleIds == 1..MaxModules
LessonIds == 1..MaxLessons
MaterialIds == 1..MaxMaterials
\* type: the form's material type; "slides" is not one the handler accepts
MaterialTypes == {"link", "slides"}
\* deadline: -1 is a text datetime.fromisoformat rejects
DeadlineForms == Times \cup {-1}

ModulesOf(c) == {d \in db.modules : d.course_id = c}

LessonsOf(m) == {d \in db.lessons : d.module_id = m}

\* find_one(..., sort=[("order", -1)]): order of the last document, 0 if none
LastOrder(docs) ==
    IF docs = {} THEN 0 ELSE CHOOSE n \in {d.order : d \in docs} : \A d \in docs : d.order <= n

\* ------------------------------------------------------------- create_module
CreateModuleStart(r, t, c) ==
    /\ Authorized(t, "teacher")
    /\ nextId["modules"] <= MaxModules
    /\ Begin(r, "create_module", "find_course", t, [course_id |-> c])

CreateModuleFindCourse(r) ==
    /\ At(r, "create_module", "find_course")
    /\ IF OwnedCourse(req[r].args.course_id, req[r].user) = {}
       THEN Finish(r, "NotFound")
       ELSE Goto(r, "find_last")
    /\ ReadOnly

CreateModuleFindLast(r) ==
    /\ At(r, "create_module", "find_last")
    /\ GotoWith(r, "insert", [order |-> LastOrder(ModulesOf(req[r].args.course_id)) + 1])
    /\ ReadOnly

NewModule(c, order) == [id |-> None, course_id |-> c, order |-> order]

CreateModuleInsert(r) ==
    /\ At(r, "create_module", "insert")
    /\ Insert("modules", NewModule(req[r].args.course_id, req[r].loc.order))
    /\ Goto(r, "set_flag")

\* The flag left as it is.
SetHasModulesKept(d) == d

\* {"$set": {"hasModules": True}}
SetHasModules(d) == [d EXCEPT !.hasModules = TRUE]

CreateModuleSetFlag(r) ==
    /\ At(r, "create_module", "set_flag")
    /\ UpdateById("courses", req[r].args.course_id, [d \in db.courses |-> SetHasModules(d)])
    /\ Finish(r, "OK")

\* ------------------------------------------------------------- create_lesson
CreateLessonStart(r, t, c, m) ==
    /\ Authorized(t, "teacher")
    /\ nextId["lessons"] <= MaxLessons
    /\ Begin(r, "create_lesson", "find_course", t, [course_id |-> c, module_id |-> m])

CreateLessonFindCourse(r) ==
    /\ At(r, "create_lesson", "find_course")
    /\ IF OwnedCourse(req[r].args.course_id, req[r].user) = {}
       THEN Finish(r, "NotFound")
       ELSE Goto(r, "find_module")
    /\ ReadOnly

\* find_one({"_id": module_id, "course_id": course_id})
ModuleIn(m, c) == {d \in db.modules : d.id = m /\ d.course_id = c}

CreateLessonFindModule(r) ==
    /\ At(r, "create_lesson", "find_module")
    /\ IF ModuleIn(req[r].args.module_id, req[r].args.course_id) = {}
       THEN Finish(r, "NotFound")
       ELSE Goto(r, "find_last")
    /\ ReadOnly

CreateLessonFindLast(r) ==
    /\ At(r, "create_lesson", "find_last")
    /\ GotoWith(r, "insert", [order |-> LastOrder(LessonsOf(req[r].args.module_id)) + 1])
    /\ ReadOnly

NewLesson(m, order) == [id |-> None, module_id |-> m, order |-> order]

CreateLessonInsert(r) ==
    /\ At(r, "create_lesson", "insert")
    /\ Insert("lessons", NewLesson(req[r].args.module_id, req[r].loc.order))
    /\ Finish(r, "OK")

\* ------------------------------------------------------------- delete_lesson
DeleteLessonStart(r, t, c, m, l) ==
    /\ Authorized(t, "teacher")
    /\ Begin(r, "delete_lesson", "find_course", t,
             [course_id |-> c, module_id |-> m, lesson_id |-> l])

DeleteLessonFindCourse(r) ==
    /\ At(r, "delete_lesson", "find_course")
    /\ IF OwnedCourse(req[r].args.course_id, req[r].user) = {}
       THEN Finish(r, "NotFound")
       ELSE Goto(r, "find_module")
    /\ ReadOnly

DeleteLessonFindModule(r) ==
    /\ At(r, "delete_lesson", "find_module")
    /\ IF ModuleIn(req[r].args.module_id, req[r].args.course_id) = {}
       THEN Finish(r, "NotFound")
       ELSE Goto(r, "find_lesson")
    /\ ReadOnly

\* find_one({"_id": lesson_id, "module_id": module_id})
DeleteLessonFindLesson(r) ==
    /\ At(r, "delete_lesson", "find_lesson")
    /\ IF \E d \in LessonsOf(req[r].args.module_id) : d.id = req[r].args.lesson_id
       THEN Goto(r, "delete")
       ELSE Finish(r, "NotFound")
    /\ ReadOnly

DeleteLessonWrite(r) ==
    /\ At(r, "delete_lesson", "delete")
    /\ DeleteById("lessons", req[r].args.lesson_id)
    /\ Finish(r, "OK")

\* ------------------------------------------------------------- upload_material
\* args.module_id = None: no module in the form. The forms sent carry a url and
\* no file.
UploadMaterialStart(r, t, c, m, type) ==
    /\ Authorized(t, "teacher")
    /\ nextId["materials"] <= MaxMaterials
    /\ NotificationRoom
    /\ Begin(r, "upload_material", "find_course", t,
             [course_id |-> c, module_id |-> m, type |-> type])

\* The tests on the form that follow the lookups, before the first write.
UploadMaterialValidate(r) ==
    IF req[r].args.type \notin {"document", "video", "link"}
    THEN Finish(r, "BadRequest")
    ELSE IF req[r].args.type \in {"document", "video"}
         THEN Finish(r, "BadRequest")
         ELSE Goto(r, "insert")

UploadMaterialFindCourse(r) ==
    /\ At(r, "upload_material", "find_course")
    /\ IF OwnedCourse(req[r].args.course_id, req[r].user) = {}
       THEN Finish(r, "NotFound")
       ELSE IF req[r].args.module_id # None
            THEN Goto(r, "find_module")
            ELSE UploadMaterialValidate(r)
    /\ ReadOnly

UploadMaterialFindModule(r) ==
    /\ At(r, "upload_material", "find_module")
    /\ IF ModuleIn(req[r].args.module_id, req[r].args.course_id) = {}
       THEN Finish(r, "NotFound")
       ELSE UploadMaterialValidate(r)
    /\ ReadOnly

NewMaterial(c, m, type, t) ==
    [id |-> None, course_id |-> c, module_id |-> m, type |-> type, uploaded_by |-> t,
     access_count |-> 0]

UploadMaterialInsert(r) ==
    /\ At(r, "upload_material", "insert")
    /\ Insert("materials",
              NewMaterial(req[r].args.course_id, req[r].args.module_id, req[r].args.type,
                          req[r].user))
    /\ Goto(r, "list_enrollments")

\* enrollments_cursor = db.enrollments.find({"course_id": ...}): the
\* enrollments still to notify, as the cursor's first batch returns them
ListEnrollments(r) ==
    /\ IF EnrollmentsIn(req[r].args.course_id) = {}
       THEN Finish(r, "OK")
       ELSE GotoWith(r, "notify", [pending |-> EnrollmentsIn(req[r].args.course_id)])
    /\ ReadOnly

\* One pass of the async for: a notification for the next enrollment.
NotifyNext(r, type) ==
    LET e == CHOOSE x \in req[r].loc.pending :
                \A y \in req[r].loc.pending :
                   \/ x.student_id < y.student_id
                   \/ x.student_id = y.student_id /\ x.id <= y.id
    IN  /\ InsertAs("notifications",
                    NewNotification(type, e.student_id, req[r].user, req[r].args.course_id))
        /\ IF req[r].loc.pending = {e}
           THEN Finish(r, "OK")
           ELSE GotoWith(r, "notify", [pending |-> req[r].loc.pending \ {e}])

UploadMaterialList(r) ==
    /\ At(r, "upload_material", "list_enrollments")
    /\ ListEnrollments(r)

UploadMaterialNotify(r) ==
    /\ At(r, "upload_material", "notify")
    /\ NotifyNext(r, "material")

\* ------------------------------------------------------------- delete_material
DeleteMaterialStart(r, t, m) ==
    /\ Authorized(t, "teacher")
    /\ Begin(r, "delete_material", "find_material", t, [material_id |-> m])

DeleteMaterialFind(r) ==
    /\ At(r, "delete_material", "find_material")
    /\ \/ /\ ~\E d \in db.materials : d.id = req[r].args.material_id
          /\ Finish(r, "NotFound")
       \/ \E d \in db.materials :
             /\ d.id = req[r].args.material_id
             /\ GotoWith(r, "find_course", [material |-> d])
    /\ ReadOnly

DeleteMaterialFindCourse(r) ==
    /\ At(r, "delete_material", "find_course")
    /\ IF OwnedCourse(req[r].loc.material.course_id, req[r].user) = {}
       THEN Finish(r, "Forbidden")
       ELSE Goto(r, "delete")
    /\ ReadOnly

DeleteMaterialWrite(r) ==
    /\ At(r, "delete_material", "delete")
    /\ DeleteById("materials", req[r].args.material_id)
    /\ Finish(r, "OK")

\* ------------------------------------------------------------- create_assignment
CreateAssignmentStart(r, t, c, deadline) ==
    /\ Authorized(t, "teacher")
    /\ nextId["assignments"] <= MaxAssignments
    /\ NotificationRoom
    /\ Begin(r, "create_assignment", "find_course", t,
             [course_id |-> c, deadline |-> deadline])

CreateAssignmentFindCourse(r) ==
    /\ At(r, "create_assignment", "find_course")
    /\ IF OwnedCourse(req[r].args.course_id, req[r].user) = {}
       THEN Finish(r, "NotFound")
       ELSE IF req[r].args.deadline = -1
            THEN Finish(r, "BadRequest")
            ELSE Goto(r, "insert")
    /\ ReadOnly

CreateAssignmentInsert(r) ==
    /\ At(r, "create_assignment", "insert")
    /\ Insert("assignments",
              NewAssignment(req[r].args.course_id, req[r].user, req[r].args.deadline))
    /\ Goto(r, "list_enrollments")

CreateAssignmentList(r) ==
    /\ At(r, "create_assignment", "list_enrollments")
    /\ ListEnrollments(r)

CreateAssignmentNotify(r) ==
    /\ At(r, "create_assignment", "notify")
    /\ NotifyNext(r, "assignment")

\* ------------------------------------------------------------- course content: specification
\* Two teachers with a course each, as create_course leaves them; the first
\* course has a student, a module with a lesson, a material and an
\* assignment, as the handlers above leave them.
OwnerDb ==
    [EmptyDb EXCEPT
       !.courses = {[CourseWith(1) EXCEPT !.hasModules = TRUE],
                    [CourseWith(0) EXCEPT !.id = 2, !.teacher_id = NumStudents + 2,
                                          !.courseCode = 2]},
       !.enrollments = {[id |-> 1, course_id |-> 1, student_id |-> 1, progress |-> 0,
                         status |-> "Active"]},
       !.modules = {[NewModule(1, 1) EXCEPT !.id = 1]},
       !.lessons = {[NewLesson(1, 1) EXCEPT !.id = 1]},
       !.materials = {[NewMaterial(1, None, "link", NumStudents + 1) EXCEPT !.id = 1]},
       !.assignments = {[NewAssignment(1, NumStudents + 1, 0) EXCEPT !.id = 1]}]

InitOwner ==
    /\ db = OwnerDb
    /\ nextId = [c \in Collections |->
                    IF c = "courses" THEN 3
                    ELSE IF c \in {"modules", "lessons", "materials", "assignments"}
                         THEN 2 ELSE 1]
    /\ now = 0
    /\ req = [r \in Req |-> IdleReq]
    /\ last = NoResponse

OwnerCourseIds == {d.id : d \in OwnerDb.courses}

\* The requests name the students and modules of the initial content.
OwnerStudents == {d.student_id : d \in OwnerDb.enrollments}

OwnerModuleIds == {d.id : d \in OwnerDb.modules}

\* The model stops taking requests that create course content once this many
\* ids have been handed out (the initial content counts).
ContentRoom ==
    nextId["modules"] + nextId["lessons"] + nextId["materials"] + nextId["assignments"]
        + nextId["certificates"] - 5 < MaxContent

OwnerBegin(r) ==
    \E t \in Teachers, c \in OwnerCourseIds :
       \/ \E cap \in Capacities : UpdateCourseStart(r, t, c, cap, None)
       \/ ContentRoom /\ CreateModuleStart(r, t, c)
       \/ ContentRoom /\ \E m \in ModuleIds : CreateLessonStart(r, t, c, m)
       \/ \E m \in OwnerModuleIds, l \in LessonIds : DeleteLessonStart(r, t, c, m, l)
       \/ \E m \in {None} \cup OwnerModuleIds, type \in MaterialTypes :
             ContentRoom /\ UploadMaterialStart(r, t, c, m, type)
       \/ \E m \in MaterialIds : DeleteMaterialStart(r, t, m)
       \/ \E deadline \in DeadlineForms : ContentRoom /\ CreateAssignmentStart(r, t, c, deadline)
       \/ \E a \in AssignmentIds : DeleteAssignmentStart(r, t, a)
       \/ ContentRoom /\ CreateTemplateStart(r, t, c)
       \/ \E s \in OwnerStudents : IssueStart(r, t, c, s)
       \/ \E s \in OwnerStudents, date \in Dates, mark \in Marks :
             RecordStart(r, t, c, s, date, mark)

OwnerStep(r) ==
    \/ UpdateCourseFind(r)
    \/ UpdateCourseWrite(r)
    \/ CreateModuleFindCourse(r)
    \/ CreateModuleFindLast(r)
    \/ CreateModuleInsert(r)
    \/ CreateModuleSetFlag(r)
    \/ CreateLessonFindCourse(r)
    \/ CreateLessonFindModule(r)
    \/ CreateLessonFindLast(r)
    \/ CreateLessonInsert(r)
    \/ DeleteLessonFindCourse(r)
    \/ DeleteLessonFindModule(r)
    \/ DeleteLessonFindLesson(r)
    \/ DeleteLessonWrite(r)
    \/ UploadMaterialFindCourse(r)
    \/ UploadMaterialFindModule(r)
    \/ UploadMaterialInsert(r)
    \/ UploadMaterialList(r)
    \/ UploadMaterialNotify(r)
    \/ DeleteMaterialFind(r)
    \/ DeleteMaterialFindCourse(r)
    \/ DeleteMaterialWrite(r)
    \/ CreateAssignmentFindCourse(r)
    \/ CreateAssignmentInsert(r)
    \/ CreateAssignmentList(r)
    \/ CreateAssignmentNotify(r)
    \/ DeleteAssignmentFind(r)
    \/ DeleteAssignmentWrite(r)
    \/ DeleteAssignmentSubmissions(r)
    \/ CreateTemplateFindCourse(r)
    \/ CreateTemplateFindExisting(r)
    \/ CreateTemplateInsert(r)
    \/ CreateTemplateUpdateCourse(r)
    \/ IssueFindCourse(r)
    \/ IssueFindTemplate(r)
    \/ IssueFindEnrollment(r)
    \/ IssueFindExisting(r)
    \/ IssueFindStudent(r)
    \/ IssueGenerate(r)
    \/ IssueInsert(r)
    \/ IssueNotify(r)
    \/ RecordFindCourse(r)
    \/ RecordFindEnrollment(r)
    \/ RecordFindExisting(r)
    \/ RecordUpdate(r)
    \/ RecordInsert(r)

NextOwnerSeq == \E r \in Req : (Quiescent /\ OwnerBegin(r)) \/ OwnerStep(r)

SpecOwnerSeq == InitOwner /\ [][NextOwnerSeq]_vars

\* ------------------------------------------------------------- claims: ownership
\* The courses a request's call is under: the course it names, or the course of
\* the material or assignment it names.
TargetCourses(r) ==
    IF req[r].op = "delete_material"
    THEN {d.course_id : d \in {m \in db.materials : m.id = req[r].args.material_id}}
            \cup (IF req[r].pc = "find_material" THEN {}
                  ELSE {req[r].loc.material.course_id})
    ELSE IF req[r].op = "delete_assignment"
         THEN {d.course : d \in {a \in db.assignments : a.id = req[r].args.assignment_id}}
         ELSE {req[r].args.course_id}

\* The caller is not the stored owner of a course the call is under.
NotOwner(r) ==
    \E c \in TargetCourses(r), d \in db.courses : d.id = c /\ d.teacher_id # req[r].user

\* C5: a step of a mutating call under a course (update course, create module,
\* create or delete lesson, upload or delete material, create or delete
\* assignment, create certificate template, issue certificate, record
\* attendance) whose caller is not the stored owner of the course changes no
\* document; the call ends at its test of the stored course, with NotFound or
\* Forbidden.
C5_NonOwnerChangesNothing ==
    [][\A r \in Req :
          req[r].op # "none" /\ Stepped(r) /\ NotOwner(r)
          => /\ db' = db
             /\ req[r].pc \in {"find_course", "find_assignment"} => Returned(r)
             /\ Returned(r) => last'.res \in {"NotFound", "Forbidden"}]_vars

\* A teacher was refused the deletion of a material of another teacher's
\* course, and the material is still there.
C5_Witness ==
    /\ last.op = "delete_material"
    /\ last.res = "Forbidden"
    /\ \E m \in db.materials, d \in db.courses :
          /\ m.id = last.args.material_id
          /\ d.id = m.course_id
          /\ d.teacher_id # last.user

\* C11: in every reachable state, also after interleaved
\* create_certificate_template requests, a course has at most one certificate
\* template; and a create request for a course that has a template ends with
\* Conflict and changes neither the certificates nor the course.
C11_TemplateUnique ==
    /\ [](\A c \in {d.id : d \in db.courses} : Cardinality(TemplatesOf(c)) <= 1)
    /\ [][\A r \in Req :
             /\ At(r, "create_certificate_template", "find_existing")
             /\ Stepped(r)
             /\ TemplatesOf(req[r].args.course_id) # {}
             => /\ Returned(r)
                /\ last'.res = "Conflict"
                /\ db' = db]_vars

\* ------------------------------------------------------------- issuance and enrollment
\* A course of the first teacher with one student enrolled and a certificate
\* template, as create_course, enroll_in_course and
\* create_certificate_template leave them.
IssueDb ==
    [EmptyDb EXCEPT
       !.courses = {[CourseWith(1) EXCEPT !.certificateOffered = TRUE]},
       !.enrollments = {[id |-> 1, course_id |-> 1, student_id |-> 1, progress |-> 0,
                         status |-> "Active"]},
       !.certificates = {[NewTemplate(1) EXCEPT !.id = 1]}]

InitIssue ==
    /\ db = IssueDb
    /\ nextId = [c \in Collections |-> IF c \in {"courses", "certificates"} THEN 2 ELSE 1]
    /\ now = 0
    /\ req = [r \in Req |-> IdleReq]
    /\ last = NoResponse

IssueBegin(r) ==
    \/ \E s \in Students, c \in CourseIds : EnrollStart(r, s, c)
    \/ \E t \in Owners, c \in CourseIds, s \in Students : IssueStart(r, t, c, s)

IssueStep(r) ==
    \/ EnrollFindCourse(r)
    \/ EnrollFindExisting(r)
    \/ EnrollInsert(r)
    \/ EnrollInc(r)
    \/ IssueFindCourse(r)
    \/ IssueFindTemplate(r)
    \/ IssueFindEnrollment(r)
    \/ IssueFindExisting(r)
    \/ IssueFindStudent(r)
    \/ IssueGenerate(r)
    \/ IssueInsert(r)
    \/ IssueNotify(r)

NextIssue == \E r \in Req : IssueBegin(r) \/ IssueStep(r)

SpecIssue == InitIssue /\ [][NextIssue]_vars

ActiveEnrollments(c, s) == {e \in EnrollmentsOf(c, s) : e.status = "Active"}

\* C12: every issued certificate is of a student who has an Active enrollment
\* in the certificate's course, and had it when the certificate was inserted;
\* an issue_certificate call that reaches its enrollment lookup for a student
\* without one ends there with NotFound and writes nothing.
C12_IssuedOnlyToEnrolled ==
    /\ [](\A d \in db.student_certificates :
             ActiveEnrollments(d.course_id, d.student_id) # {})
    /\ [][/\ \A d \in db'.student_certificates \ db.student_certificates :
                ActiveEnrollments(d.course_id, d.student_id) # {}
          /\ \A r \in Req :
                /\ At(r, "issue_certificate", "find_enrollment")
                /\ Stepped(r)
                /\ ActiveEnrollments(req[r].args.course_id, req[r].args.student_id) = {}
                => /\ Returned(r)
                   /\ last'.res = "NotFound"
                   /\ db' = db]_vars

\* A student who enrolled in the meantime has a certificate, and an issue for
\* a student who is not enrolled has just been refused.
C12_Witness ==
    /\ \E d \in db.student_certificates :
          \A e \in IssueDb.enrollments : e.student_id # d.student_id
    /\ last.op = "issue_certificate"
    /\ last.res = "NotFound"
    /\ EnrollmentsOf(last.args.course_id, last.args.student_id) = {}

\* ------------------------------------------------------------- ordering of content
\* Requests of the teachers that create modules and lessons and delete lessons,
\* interleaved.
ContentBegin(r) ==
    \E t \in Teachers, c \in OwnerCourseIds :
       \/ CreateModuleStart(r, t, c)
       \/ \E m \in ModuleIds : CreateLessonStart(r, t, c, m)
       \/ \E m \in OwnerModuleIds, l \in LessonIds : DeleteLessonStart(r, t, c, m, l)

ContentStep(r) ==
    \/ CreateModuleFindCourse(r)
    \/ CreateModuleFindLast(r)
    \/ CreateModuleInsert(r)
    \/ CreateModuleSetFlag(r)
    \/ CreateLessonFindCourse(r)
    \/ CreateLessonFindModule(r)
    \/ CreateLessonFindLast(r)
    \/ CreateLessonInsert(r)
    \/ DeleteLessonFindCourse(r)
    \/ DeleteLessonFindModule(r)
    \/ DeleteLessonFindLesson(r)
    \/ DeleteLessonWrite(r)

NextContent == \E r \in Req : ContentBegin(r) \/ ContentStep(r)

SpecContent == InitOwner /\ [][NextContent]_vars

\* C13: no two modules of a course and no two lessons of a module carry the
\* same order, and of two items under one parent the one created later (the
\* larger id) has the strictly larger order, also when create requests under
\* the same parent interleave.
C13_OrderStrict ==
    /\ \A d, e \in db.modules :
          d.course_id = e.course_id /\ d.id < e.id => d.order < e.order
    /\ \A d, e \in db.lessons :
          d.module_id = e.module_id /\ d.id < e.id => d.order < e.order

\* ------------------------------------------------------------- accounts
NumEmails == 2
NumNames == 1
NumPasswords == 1
NumBios == 1
MaxAccounts == 3

Emails == 1..NumEmails
Names == 1..NumNames
Passwords == 1..NumPasswords
Bios == 1..NumBios
AccountIds == 1..MaxAccounts
Roles == {"student", "teacher", "admin"}

\* get_password_hash (app/core/security.py)
Hash(p) == <<"hashed", p>>

\* get_current_user and get_current_superuser (app/api/deps.py)
Authenticated(u) == \E d \in db.users : d.id = u

Superuser(u) == \E d \in db.users : d.id = u /\ d.is_superuser

UsersWithEmail(e) == {d \in db.users : d.email = e}

\* ------------------------------------------------------------- signup
SignupStart(r, email, role) ==
    /\ nextId["users"] <= MaxAccounts
    /\ \E name \in Names, p \in Passwords :
          Begin(r, "signup", "find_email", None,
                [email |-> email, username |-> name, role |-> role, password |-> p])

SignupFindEmail(r) ==
    /\ At(r, "signup", "find_email")
    /\ IF UsersWithEmail(req[r].args.email) # {}
       THEN Finish(r, "BadRequest")
       ELSE Goto(r, "insert")
    /\ ReadOnly

NewUser(a) ==
    [id |-> None, email |-> a.email, username |-> a.username, role |-> a.role,
     hashed_password |-> Hash(a.password), is_active |-> TRUE, is_superuser |-> FALSE]

SignupInsert(r) ==
    /\ At(r, "signup", "insert")
    /\ Insert("users", NewUser(req[r].args))
    /\ IF req[r].args.role \in {"student", "teacher"}
       THEN GotoWith(r, "profile", [inserted_id |-> nextId["users"]])
       ELSE Finish(r, "OK")

NewProfile(u, name) == [id |-> None, user_id |-> u, full_name |-> name, bio |-> None]

SignupProfile(r) ==
    /\ At(r, "signup", "profile")
    /\ Insert(IF req[r].args.role = "student" THEN "student_profiles" ELSE "teacher_profiles",
              NewProfile(req[r].loc.inserted_id, req[r].args.username))
    /\ Finish(r, "OK")

\* ------------------------------------------------------------- update of a user
\* A request body: the fields it carries and their values (a field it does not
\* carry has a fixed value here, which nothing reads).
NoBody ==
    [fields |-> {}, email |-> 1, username |-> 1, password |-> 1, is_active |-> TRUE,
     role |-> "admin"]

UserBodies ==
    LET one == {NoBody} \cup {[NoBody EXCEPT !.fields = {"email"}, !.email = e] : e \in Emails}
                 \cup {[NoBody EXCEPT !.fields = {"username"}, !.username = n] : n \in Names}
                 \cup {[NoBody EXCEPT !.fields = {"password"}, !.password = p] : p \in Passwords}
                 \cup {[NoBody EXCEPT !.fields = {"is_active"}, !.is_active = a] : a \in BOOLEAN}
    IN  one \cup {[b EXCEPT !.fields = @ \cup {"role"}] : b \in one}

\* The body parsed with a role field in the model, and so kept in the $set.
UserUpdateDictKeepRole(body) ==
    [fields |-> {IF f = "password" THEN "hashed_password" ELSE f : f \in body.fields},
     email |-> body.email, username |-> body.username,
     hashed_password |-> Hash(body.password), is_active |-> body.is_active,
     role |-> body.role]

\* UserUpdate parses the body, dropping what is not one of its fields;
\* dict(exclude_unset=True) keeps the fields sent; password becomes
\* hashed_password.
UserUpdateDict(body) ==
    [fields |-> {IF f = "password" THEN "hashed_password" ELSE f :
                    f \in body.fields \cap {"email", "username", "password", "is_active"}},
     email |-> body.email, username |-> body.username,
     hashed_password |-> Hash(body.password), is_active |-> body.is_active,
     role |-> body.role]

\* {"$set": update_data}
SetUser(d, upd) == [f \in DOMAIN d |-> IF f \in upd.fields THEN upd[f] ELSE d[f]]

UpdateMeStart(r, u, body) ==
    /\ Authenticated(u)
    /\ Begin(r, "update_current_user", "update", u, [body |-> body])

UpdateMeWrite(r) ==
    /\ At(r, "update_current_user", "update")
    /\ IF UserUpdateDict(req[r].args.body).fields # {}
       THEN UpdateById("users", req[r].user,
                       [d \in db.users |-> SetUser(d, UserUpdateDict(req[r].args.body))])
       ELSE ReadOnly
    /\ Goto(r, "reload")

\* updated_user["_id"] of a user that is gone: TypeError
UpdateMeReload(r) ==
    /\ At(r, "update_current_user", "reload")
    /\ Finish(r, IF Authenticated(req[r].user) THEN "OK" ELSE "InternalError")
    /\ ReadOnly

UpdateUserStart(r, u, target, body) ==
    /\ Superuser(u)
    /\ Begin(r, "update_user", "find", u, [user_id |-> target, body |-> body])

UpdateUserFind(r) ==
    /\ At(r, "update_user", "find")
    /\ IF Authenticated(req[r].args.user_id)
       THEN Goto(r, "update")
       ELSE Finish(r, "NotFound")
    /\ ReadOnly

UpdateUserWrite(r) ==
    /\ At(r, "update_user", "update")
    /\ IF UserUpdateDict(req[r].args.body).fields # {}
       THEN UpdateById("users", req[r].args.user_id,
                       [d \in db.users |-> SetUser(d, UserUpdateDict(req[r].args.body))])
       ELSE ReadOnly
    /\ Goto(r, "reload")

UpdateUserReload(r) ==
    /\ At(r, "update_user", "reload")
    /\ Finish(r, IF Authenticated(req[r].args.user_id) THEN "OK" ELSE "InternalError")
    /\ ReadOnly

\* ------------------------------------------------------------- update_student_profile
ProfileForms == [full_name : {None} \cup Names, bio : {None} \cup Bios]

SetProfile(d, form) ==
    [d EXCEPT !.full_name = IF form.full_name = None THEN @ ELSE form.full_name,
              !.bio = IF form.bio = None THEN @ ELSE form.bio]

UpdateProfileStart(r, s, form) ==
    /\ Authorized(s, "student")
    /\ Begin(r, "update_student_profile", "find", s, form)

UpdateProfileFind(r) ==
    /\ At(r, "update_student_profile", "find")
    /\ IF \E d \in db.student_profiles : d.user_id = req[r].user
       THEN Goto(r, "update")
       ELSE Finish(r, "NotFound")
    /\ ReadOnly

\* update_one({"user_id": ...}): a user has at most one profile here
UpdateProfileWrite(r) ==
    /\ At(r, "update_student_profile", "update")
    /\ IF req[r].args = [full_name |-> None, bio |-> None]
       THEN ReadOnly
       ELSE /\ db' = [db EXCEPT !.student_profiles =
                        {IF d.user_id = req[r].user THEN SetProfile(d, req[r].args) ELSE d :
                            d \in @}]
            /\ UNCHANGED <<nextId, now>>
    /\ Goto(r, "reload")

UpdateProfileReload(r) ==
    /\ At(r, "update_student_profile", "reload")
    /\ Finish(r, IF \E d \in db.student_profiles : d.user_id = req[r].user
                 THEN "OK" ELSE "InternalError")
    /\ ReadOnly

\* ------------------------------------------------------------- forgot_password, reset_password
ForgotPasswordStart(r, email) ==
    Begin(r, "forgot_password", "find", None, [email |-> email])

\* With a user found, the record for password_reset is built with
\* datetime.utcnow(); auth.py imports timedelta from datetime and nothing named
\* datetime, so this raises NameError before insert_one and before the email.
ForgotPasswordFind(r) ==
    /\ At(r, "forgot_password", "find")
    /\ Finish(r, IF UsersWithEmail(req[r].args.email) = {}
                 THEN "ResetMessage" ELSE "InternalError")
    /\ ReadOnly

\* The password set without a look at password_reset.
ResetPasswordFindNoRecord(r) ==
    /\ At(r, "reset_password", "find")
    /\ db' = [db EXCEPT !.users =
                 {IF d.email = req[r].args.email
                  THEN [d EXCEPT !.hashed_password = Hash(req[r].args.password)]
                  ELSE d : d \in @}]
    /\ UNCHANGED <<nextId, now>>
    /\ Finish(r, "OK")

ResetPasswordStart(r, email, p) ==
    Begin(r, "reset_password", "find", None, [email |-> email, password |-> p])

\* The filter of the first find_one is built with datetime.utcnow(): NameError.
ResetPasswordFind(r) ==
    /\ At(r, "reset_password", "find")
    /\ Finish(r, "InternalError")
    /\ ReadOnly

\* ------------------------------------------------------------- refresh_token
\* The cookie: a token with its type tag, its subject and whether it
\* has expired.
Tokens == [type : {"access", "refresh"}, sub : AccountIds, expired : BOOLEAN]

\* refresh_token: str = Cookie(None), no cookie sent
NoToken == [type |-> "none", sub |-> None, expired |-> FALSE]

RefreshTokenStart(r, token) ==
    Begin(r, "refresh_token", "decode", None, [token |-> token])

\* jwt.decode: auth.py binds no name jwt (nor JWTError, ValidationError, which
\* the except clause names), so with a cookie the handler raises NameError.
RefreshTokenDecode(r) ==
    /\ At(r, "refresh_token", "decode")
    /\ Finish(r, IF req[r].args.token = NoToken THEN "Unauthenticated" ELSE "InternalError")
    /\ ReadOnly

\* ------------------------------------------------------------- accounts: specifications
\* An administrator, whom no endpoint can create (signup writes
\* is_superuser False), is in the store.
AccountDb ==
    [EmptyDb EXCEPT
       !.users = {[id |-> 1, email |-> 1, username |-> 1, role |-> "admin",
                   hashed_password |-> Hash(1), is_active |-> TRUE, is_superuser |-> TRUE]}]

InitAccount ==
    /\ db = AccountDb
    /\ nextId = [c \in Collections |-> IF c = "users" THEN 2 ELSE 1]
    /\ now = 0
    /\ req = [r \in Req |-> IdleReq]
    /\ last = NoResponse

SignupBegin(r) == \E email \in Emails, role \in Roles : SignupStart(r, email, role)

SignupStep(r) ==
    \/ SignupFindEmail(r)
    \/ SignupInsert(r)
    \/ SignupProfile(r)

NextSignup == \E r \in Req : SignupBegin(r) \/ SignupStep(r)

SpecSignup == InitAccount /\ [][NextSignup]_vars

AccountBegin(r) ==
    \/ SignupBegin(r)
    \/ \E u \in AccountIds, body \in UserBodies : UpdateMeStart(r, u, body)
    \/ \E u, target \in AccountIds, body \in UserBodies : UpdateUserStart(r, u, target, body)
    \/ \E s \in AccountIds, form \in ProfileForms : UpdateProfileStart(r, s, form)
    \/ \E email \in Emails : ForgotPasswordStart(r, email)
    \/ \E email \in Emails, p \in Passwords : ResetPasswordStart(r, email, p)
    \/ \E token \in {NoToken} \cup Tokens : RefreshTokenStart(r, token)

AccountStep(r) ==
    \/ SignupStep(r)
    \/ UpdateMeWrite(r)
    \/ UpdateMeReload(r)
    \/ UpdateUserFind(r)
    \/ UpdateUserWrite(r)
    \/ UpdateUserReload(r)
    \/ UpdateProfileFind(r)
    \/ UpdateProfileWrite(r)
    \/ UpdateProfileReload(r)
    \/ ForgotPasswordFind(r)
    \/ ResetPasswordFind(r)
    \/ RefreshTokenDecode(r)

NextAccountSeq == \E r \in Req : (Quiescent /\ AccountBegin(r)) \/ AccountStep(r)

SpecAccountSeq == InitAccount /\ [][NextAccountSeq]_vars

\* ------------------------------------------------------------- accounts: claims
\* C14: a refresh-token call with a token whose type tag is not "refresh",
\* expired or not, ends with Unauthenticated and leaves the store unchanged.
C14_NonRefreshTokenUnauthenticated ==
    [][\A r \in Req :
          /\ At(r, "refresh_token", "decode")
          /\ Stepped(r)
          /\ req[r].args.token \in Tokens
          /\ req[r].args.token.type # "refresh"
          => /\ last'.res = "Unauthenticated"
             /\ db' = db]_vars

\* C15: a forgot-password call ends with the same success message whether or
\* not a user with the email exists.
C15_ForgotPasswordSameOutcome ==
    [][\A r \in Req :
          At(r, "forgot_password", "find") /\ Stepped(r) => last'.res = "ResetMessage"]_vars

\* C16: in every reachable state no two user records have the same email.
C16_EmailUnique ==
    \A d, e \in db.users : d.email = e.email => d = e

\* C20: no step changes the role of a user record that exists before and after
\* it.
C20_RoleUnchanged ==
    [][\A d \in db.users : \A e \in db'.users : e.id = d.id => e.role = d.role]_vars

\* An administrator's update whose body carried a role and an email has changed
\* the email of a user who signed up with another role.
C20_Witness ==
    /\ last.op = "update_user"
    /\ last.res = "OK"
    /\ last.args.body.fields = {"email", "role"}
    /\ \E d \in db.users :
          /\ d.id = last.args.user_id
          /\ d.email = last.args.body.email
          /\ d.role # last.args.body.role

\* ------------------------------------------------------------- statistics
NumStatCourses == 2
NumStatDates == 2
NumStatAssignments == 2
NumStatStudents == 2

StatCourses == 1..NumStatCourses
StatDates == 1..NumStatDates
StatAssignments == 1..NumStatAssignments
StatStudents == 1..NumStatStudents
StatStatuses == {"Present", "Absent", "Late", "Excused"}
\* Scores drawn are positive, so that None stands for no score only.
StatScores == {50, 100}
Progresses == {0, 100}

RECURSIVE Sum(_, _)
\* sum(f[x] for x in S)
Sum(f, S) ==
    IF S = {} THEN 0
    ELSE LET x == CHOOSE y \in S : TRUE IN f[x] + Sum(f, S \ {x})

\* round(n / d), and round(n / d * 100, 2) in hundredths when n carries the
\* factor 10000: to the nearest integer, a tie to the even one
Round(n, d) ==
    LET q == n \div d
        rem == n % d
    IN  IF 2 * rem > d \/ (2 * rem = d /\ q % 2 = 1) THEN q + 1 ELSE q

CountStatus(records, st) == Cardinality({a \in records : a.status = st})

\* The rate taken from the absences.
AttendanceRateOfAbsent(records) ==
    IF Cardinality(records) > 0
    THEN Round(CountStatus(records, "Absent") * 10000, Cardinality(records))
    ELSE 0

\* (present_count / total_records) * 100, rounded to 2 places: in hundredths
AttendanceRate(records) ==
    IF Cardinality(records) > 0
    THEN Round(CountStatus(records, "Present") * 10000, Cardinality(records))
    ELSE 0

Statistics(records) ==
    [total |-> Cardinality(records),
     present |-> CountStatus(records, "Present"),
     absent |-> CountStatus(records, "Absent"),
     late |-> CountStatus(records, "Late"),
     excused |-> CountStatus(records, "Excused"),
     attendance_rate |-> AttendanceRate(records)]

\* ------------------------------------------------------------- get_student_attendance
\* args.course_id = None: no course_id in the query string
GetAttendanceStart(r, s, c) ==
    /\ Authorized(s, "student")
    /\ Begin(r, "get_student_attendance", "find", s, [course_id |-> c])

\* The records of the query whose course is found
AttendanceRecords(s, c) ==
    {a \in db.attendance :
        /\ a.student_id = s
        /\ c # None => a.course_id = c
        /\ \E d \in db.courses : d.id = a.course_id}

\* The reads of the handler, no request writing between them.
GetAttendanceFind(r) ==
    /\ At(r, "get_student_attendance", "find")
    /\ Finish(r, [status |-> "OK",
                  statistics |-> Statistics(AttendanceRecords(req[r].user,
                                                              req[r].args.course_id))])
    /\ ReadOnly

\* ------------------------------------------------------------- get_student_progress
\* No records: nothing missed.
AttendancePercentVacuous(records) ==
    IF records # {}
    THEN Round(CountStatus(records, "Present") * 100, Cardinality(records))
    ELSE 100

\* round((present_count / len(attendance_records)) * 100)
AttendancePercent(records) ==
    IF records # {}
    THEN Round(CountStatus(records, "Present") * 100, Cardinality(records))
    ELSE 0

Graded(submissions) == {d \in submissions : d.score # None}

\* round((total_score / (len(graded_submissions) * 100)) * 100)
Score(submissions) ==
    IF submissions # {} /\ Graded(submissions) # {}
    THEN Round(Sum([d \in Graded(submissions) |-> d.score], Graded(submissions)) * 100,
               Cardinality(Graded(submissions)) * 100)
    ELSE 0

\* round(sum(e["progress"] for e in enrollments) / len(enrollments))
OverallProgress(entries) ==
    IF entries # {}
    THEN Round(Sum([e \in entries |-> e.progress], entries), Cardinality(entries))
    ELSE 0

SubmissionsIn(c, s) ==
    {d \in db.submissions :
        /\ d.student_id = s
        /\ \E a \in db.assignments : a.course = c /\ a.id = d.assignment_id}

\* The entry of one enrollment in the response
ProgressEntry(e) ==
    [course_id |-> e.course_id,
     progress |-> e.progress,
     score |-> Score(SubmissionsIn(e.course_id, e.student_id)),
     attendance |-> AttendancePercent({a \in db.attendance :
                                          /\ a.course_id = e.course_id
                                          /\ a.student_id = e.student_id})]

\* The enrollments of the student whose course is found
ProgressEnrollments(s) ==
    {e \in db.enrollments : e.student_id = s /\ \E d \in db.courses : d.id = e.course_id}

GetProgressStart(r, s) ==
    /\ Authorized(s, "student")
    /\ Begin(r, "get_student_progress", "find", s, NoDoc)

\* The reads of the handler, no request writing between them. For each
\* enrollment the handler awaits assignments_cursor.count(), which older
\* releases of the driver have and newer ones do not (AttributeError).
GetProgressFind(r) ==
    /\ At(r, "get_student_progress", "find")
    /\ \E has_count \in BOOLEAN :
          IF ProgressEnrollments(req[r].user) # {} /\ ~has_count
          THEN Finish(r, [status |-> "InternalError"])
          ELSE Finish(r, [status |-> "OK",
                          overall_progress |->
                              OverallProgress({ProgressEntry(e) :
                                                  e \in ProgressEnrollments(req[r].user)}),
                          courses |-> {ProgressEntry(e) :
                                          e \in ProgressEnrollments(req[r].user)}])
    /\ ReadOnly

\* ------------------------------------------------------------- statistics: specification
\* The store of a first student enrolled in some of the courses, with a
\* progress set by the workflow outside, attendance recorded on some dates and
\* submissions, graded or not, to the assignments of the first course; the
\* other students have nothing.
StatsDb(enrolled, prog, recorded, st, submitted, graded, score) ==
    [EmptyDb EXCEPT
       !.courses = {[CourseWith(IF c \in enrolled THEN 1 ELSE 0) EXCEPT
                        !.id = c, !.courseCode = c] : c \in StatCourses},
       !.enrollments = {[id |-> c, course_id |-> c, student_id |-> 1, progress |-> prog[c],
                         status |-> "Active"] : c \in enrolled},
       !.assignments = {[NewAssignment(1, NumStudents + 1, 0) EXCEPT !.id = a] :
                           a \in StatAssignments},
       !.attendance = {[id |-> <<x[1], 1, x[2], 1>>, course_id |-> x[1], student_id |-> 1,
                        date |-> x[2], status |-> st[x], time |-> None, note |-> None,
                        recorded_by |-> NumStudents + 1] : x \in recorded},
       !.submissions =
           {IF a \in graded
            THEN SetGrade([NewSubmission(a, 1, "Submitted", 0) EXCEPT !.id = a],
                          [score |-> score[a], feedback |-> None], 0)
            ELSE [NewSubmission(a, 1, "Submitted", 0) EXCEPT !.id = a] : a \in submitted}]

InitStats ==
    /\ \E enrolled \in SUBSET StatCourses :
       \E prog \in [enrolled -> Progresses] :
       \E recorded \in SUBSET (enrolled \X StatDates) :
       \E st \in [recorded -> StatStatuses] :
       \E submitted \in SUBSET (IF 1 \in enrolled THEN StatAssignments ELSE {}) :
       \E graded \in SUBSET submitted :
       \E score \in [graded -> StatScores] :
          db = StatsDb(enrolled, prog, recorded, st, submitted, graded, score)
    /\ nextId = [c \in Collections |-> NumStatCourses + NumStatDates + NumStatAssignments]
    /\ now = 0
    /\ req = [r \in Req |-> IdleReq]
    /\ last = NoResponse

StatsBegin(r) ==
    \E s \in StatStudents :
       \/ \E c \in {None} \cup StatCourses : GetAttendanceStart(r, s, c)
       \/ GetProgressStart(r, s)

StatsStep(r) ==
    \/ GetAttendanceFind(r)
    \/ GetProgressFind(r)

NextStatsSeq == \E r \in Req : (Quiescent /\ StatsBegin(r)) \/ StatsStep(r)

SpecStatsSeq == InitStats /\ [][NextStatsSeq]_vars

\* ------------------------------------------------------------- statistics: claims
\* What the student has on record, whatever the handlers read.
AttendanceScope(s, c) ==
    {a \in db.attendance : a.student_id = s /\ (c # None => a.course_id = c)}

GradedScope(s, c) ==
    {d \in db.submissions :
        /\ d.student_id = s
        /\ d.score # None
        /\ \E a \in db.assignments : a.id = d.assignment_id /\ a.course = c}

C18_AttendanceStatistics ==
    [][\A r \in Req :
          At(r, "get_student_attendance", "find") /\ Stepped(r)
          => LET scope == AttendanceScope(req[r].user, req[r].args.course_id)
                 n(st) == Cardinality({a \in scope : a.status = st})
                 res == last'.res.statistics
             IN  /\ last'.res.status = "OK"
                 /\ res.total = Cardinality(scope)
                 /\ res.present = n("Present")
                 /\ res.absent = n("Absent")
                 /\ res.late = n("Late")
                 /\ res.excused = n("Excused")
                 /\ res.total = 0 => res.attendance_rate = 0
                 /\ 2 * (res.attendance_rate * res.total - n("Present") * 10000) <= res.total
                 /\ 2 * (n("Present") * 10000 - res.attendance_rate * res.total) <= res.total
                 /\ (Cardinality(scope) = 4 /\ n("Present") = 2 /\ n("Absent") = 1
                        /\ n("Late") = 1)
                    => res = [total |-> 4, present |-> 2, absent |-> 1, late |-> 1,
                              excused |-> 0, attendance_rate |-> 5000]]_vars

\* The statistics of the records Present, Present, Absent, Late have been
\* returned.
C18_Witness ==
    /\ last.op = "get_student_attendance"
    /\ last.res.status = "OK"
    /\ last.res.statistics.total = 4
    /\ last.res.statistics.present = 2
    /\ last.res.statistics.absent = 1
    /\ last.res.statistics.late = 1
    /\ last.res.statistics.attendance_rate = 5000

\* ------------------------------------------------------------- notification fan-out
\* A course of the first teacher with one student enrolled; students enroll
\* while the teacher creates assignments and uploads materials.
FanoutDb ==
    [EmptyDb EXCEPT
       !.courses = {CourseWith(1)},
       !.enrollments = {[id |-> 1, course_id |-> 1, student_id |-> 1, progress |-> 0,
                         status |-> "Active"]}]

InitFanout ==
    /\ db = FanoutDb
    /\ nextId = [c \in Collections |-> IF c = "courses" THEN 2 ELSE 1]
    /\ now = 0
    /\ req = [r \in Req |-> IdleReq]
    /\ last = NoResponse

FanoutBegin(r) ==
    \/ \E s \in Students, c \in CourseIds : EnrollStart(r, s, c)
    \/ \E t \in Owners, c \in CourseIds : CreateAssignmentStart(r, t, c, MaxTime)
    \/ \E t \in Owners, c \in CourseIds, type \in MaterialTypes :
          UploadMaterialStart(r, t, c, None, type)

FanoutStep(r) ==
    \/ EnrollFindCourse(r)
    \/ EnrollFindExisting(r)
    \/ EnrollInsert(r)
    \/ EnrollInc(r)
    \/ CreateAssignmentFindCourse(r)
    \/ CreateAssignmentInsert(r)
    \/ CreateAssignmentList(r)
    \/ CreateAssignmentNotify(r)
    \/ UploadMaterialFindCourse(r)
    \/ UploadMaterialInsert(r)
    \/ UploadMaterialList(r)
    \/ UploadMaterialNotify(r)

NextFanout == \E r \in Req : FanoutBegin(r) \/ FanoutStep(r)

SpecFanout == InitFanout /\ [][NextFanout]_vars

NextFanoutSeq == \E r \in Req : (Quiescent /\ FanoutBegin(r)) \/ FanoutStep(r)

SpecFanoutSeq == InitFanout /\ [][NextFanoutSeq]_vars

\* The operations that notify the students of a course, and the type of their
\* notifications
FanoutType(op) == IF op = "create_assignment" THEN "assignment" ELSE "material"

Notifying(r) == req[r].op \in {"create_assignment", "upload_material"}

\* C19: a create_assignment or upload_material that succeeds sends exactly one
\* notification of its event to each student enrolled in the course when it
\* read the enrollments, and nothing else sends one. When the operation reads
\* the enrollments, what it is to notify holds each enrolled student once; each
\* pass inserts one notification of the operation's type, course and sender
\* for one student still to notify and takes one entry of that student off;
\* and no other step, an enrollment included, inserts a notification.
C19_OneNotificationEach ==
    [][/\ \A r \in Req :
             Notifying(r) /\ req[r].pc = "list_enrollments" /\ Stepped(r)
             => LET read == IF Returned(r) THEN {} ELSE req'[r].loc.pending
                IN  \A s \in Students :
                       Cardinality({e \in read : e.student_id = s})
                          = IF EnrollmentsOf(req[r].args.course_id, s) # {} THEN 1 ELSE 0
       /\ \A r \in Req :
             Notifying(r) /\ req[r].pc = "notify" /\ Stepped(r)
             => \E n \in db'.notifications \ db.notifications :
                \E e \in req[r].loc.pending :
                   /\ db'.notifications = db.notifications \cup {n}
                   /\ n.type = FanoutType(req[r].op)
                   /\ n.course_id = req[r].args.course_id
                   /\ n.sender_id = req[r].user
                   /\ n.recipient_id = e.student_id
                   /\ IF Returned(r)
                      THEN req[r].loc.pending = {e} /\ last'.res = "OK"
                      ELSE req'[r].loc.pending = req[r].loc.pending \ {e}
       /\ db'.notifications # db.notifications
          => \E r \in Req : Notifying(r) /\ req[r].pc = "notify" /\ Stepped(r)]_vars

\* ------------------------------------------------------------- ordering of content, in sequence
NextContentSeq == \E r \in Req : (Quiescent /\ ContentBegin(r)) \/ ContentStep(r)

SpecContentSeq == InitOwner /\ [][NextContentSeq]_vars

\* C21: a module or lesson is inserted with order 1 + the largest order of
\* its siblings (1 if it has none), and the order of a lesson is never given to
\* a lesson created later in its module, also after the earlier lesson is
\* deleted: no later lesson carries the order of a lesson of the initial
\* content.
C21_OrderNeverReused ==
    /\ [](\A d0 \in OwnerDb.lessons : \A d \in db.lessons :
             d.module_id = d0.module_id /\ d.id # d0.id => d.order # d0.order)
    /\ [][/\ \A d \in db'.lessons \ db.lessons :
                d.order = 1 + LastOrder(LessonsOf(d.module_id))
          /\ \A d \in db'.modules \ db.modules :
                d.order = 1 + LastOrder(ModulesOf(d.course_id))]_vars

\* ------------------------------------------------------------- a notification that cannot be inserted
\* notifications.insert_one raises (the store does not take the write); no
\* handler catches it, the request ends as an internal server error.
NotifyFails(r) ==
    /\ req[r].op \in {"create_assignment", "upload_material", "grade", "issue_certificate"}
    /\ req[r].pc = "notify"
    /\ Finish(r, "InternalError")
    /\ ReadOnly

\* The enrolled students' course with an assignment, a submission of the first
\* student and a certificate template, as create_assignment, submit_assignment
\* and create_certificate_template leave them.
NotifyDb ==
    [EnrolledDb EXCEPT
       !.courses = {[CourseWith(NumEnrolled) EXCEPT !.certificateOffered = TRUE]},
       !.assignments = {[NewAssignment(1, NumStudents + 1, MaxTime) EXCEPT !.id = 1]},
       !.submissions = {[NewSubmission(1, 1, "Submitted", 0) EXCEPT !.id = 1]},
       !.certificates = {[NewTemplate(1) EXCEPT !.id = 1]}]

InitNotify ==
    /\ db = NotifyDb
    /\ nextId = [c \in Collections |->
                    IF c \in {"courses", "assignments", "submissions", "certificates"}
                    THEN 2 ELSE 1]
    /\ now = 0
    /\ req = [r \in Req |-> IdleReq]
    /\ last = NoResponse

NotifyBegin(r) ==
    \E t \in Owners, c \in CourseIds :
       \/ CreateAssignmentStart(r, t, c, MaxTime)
       \/ UploadMaterialStart(r, t, c, None, "link")
       \/ \E a \in AssignmentIds, s \in 1..NumEnrolled, score \in Scores :
             GradeStart(r, t, a, s, score, None)
       \/ \E s \in Students : IssueStart(r, t, c, s)

NotifyStep(r) ==
    \/ CreateAssignmentFindCourse(r)
    \/ CreateAssignmentInsert(r)
    \/ CreateAssignmentList(r)
    \/ CreateAssignmentNotify(r)
    \/ UploadMaterialFindCourse(r)
    \/ UploadMaterialInsert(r)
    \/ UploadMaterialList(r)
    \/ UploadMaterialNotify(r)
    \/ GradeFindAssignment(r)
    \/ GradeFindSubmission(r)
    \/ GradeUpdate(r)
    \/ GradeNotify(r)
    \/ IssueFindCourse(r)
    \/ IssueFindTemplate(r)
    \/ IssueFindEnrollment(r)
    \/ IssueFindExisting(r)
    \/ IssueFindStudent(r)
    \/ IssueGenerate(r)
    \/ IssueInsert(r)
    \/ IssueNotify(r)
    \/ NotifyFails(r)

NextNotifySeq == \E r \in Req : (Quiescent /\ NotifyBegin(r)) \/ NotifyStep(r)

SpecNotifySeq == InitNotify /\ [][NextNotifySeq]_vars

\* C22: when the insert of a notification fails in create_assignment,
\* upload_material, grade_assignment or issue_certificate, what the operation
\* has written stays stored and the operation does not end with an error.
C22_NotificationFailureTolerated ==
    [][\A r \in Req :
          /\ req[r].op \in {"create_assignment", "upload_material", "grade",
                            "issue_certificate"}
          /\ req[r].pc = "notify"
          /\ Stepped(r)
          /\ db'.notifications = db.notifications
          => /\ db' = db
             /\ Returned(r) => last'.res = "OK"]_vars

\* ------------------------------------------------------------- login, logout, verify_otp
\* A password no account has at first.
OtherPassword == NumPasswords + 1

\* verify_password (app/core/security.py)
VerifyPassword(p, hashed) == hashed = Hash(p)

\* create_access_token and create_refresh_token (app/core/security.py): a signed
\* token with its type tag and its subject, not yet expired
NewToken(type, u) == [type |-> type, sub |-> u, expired |-> FALSE]

\* find_one({"email": ...}): the first user with the email, NoDoc if none
FirstUserWithEmail(e) ==
    IF UsersWithEmail(e) = {} THEN NoDoc
    ELSE CHOOSE d \in UsersWithEmail(e) : \A x \in UsersWithEmail(e) : d.id <= x.id

LoginStart(r, email, p) ==
    Begin(r, "login", "find", None, [email |-> email, password |-> p])

\* The test of is_active left out.
LoginFindNoActiveTest(r) ==
    LET user == FirstUserWithEmail(req[r].args.email)
    IN  /\ At(r, "login", "find")
        /\ IF user = NoDoc
           THEN Finish(r, [status |-> "Unauthenticated"])
           ELSE IF ~VerifyPassword(req[r].args.password, user.hashed_password)
                THEN Finish(r, [status |-> "Unauthenticated"])
                ELSE Finish(r, [status |-> "OK",
                                access_token |-> NewToken("access", user.id),
                                refresh_cookie |-> NewToken("refresh", user.id)])
        /\ ReadOnly

LoginFind(r) ==
    LET user == FirstUserWithEmail(req[r].args.email)
    IN  /\ At(r, "login", "find")
        /\ IF user = NoDoc
           THEN Finish(r, [status |-> "Unauthenticated"])
           ELSE IF ~VerifyPassword(req[r].args.password, user.hashed_password)
                THEN Finish(r, [status |-> "Unauthenticated"])
                ELSE IF ~user.is_active
                     THEN Finish(r, [status |-> "BadRequest"])
                     ELSE Finish(r, [status |-> "OK",
                                     access_token |-> NewToken("access", user.id),
                                     refresh_cookie |-> NewToken("refresh", user.id)])
        /\ ReadOnly

LogoutStart(r) == Begin(r, "logout", "run", None, NoDoc)

\* response.delete_cookie: nothing is read or written in the store
LogoutRun(r) ==
    /\ At(r, "logout", "run")
    /\ Finish(r, "OK")
    /\ ReadOnly

VerifyOtpStart(r, email, otp) ==
    Begin(r, "verify_otp", "find", None, [email |-> email, otp |-> otp])

\* The filter of the find_one is built with datetime.utcnow(): NameError.
VerifyOtpFind(r) ==
    /\ At(r, "verify_otp", "find")
    /\ Finish(r, "InternalError")
    /\ ReadOnly

\* ------------------------------------------------------------- sessions: specification
NumOtps == 1

Otps == 1..NumOtps

\* The administrator switches accounts off and on.
ActiveBodies == {b \in UserBodies : b.fields = {"is_active"}}

SessionBegin(r) ==
    \/ SignupBegin(r)
    \/ \E u, target \in AccountIds, body \in ActiveBodies : UpdateUserStart(r, u, target, body)
    \/ \E email \in Emails, p \in Passwords \cup {OtherPassword} : LoginStart(r, email, p)
    \/ LogoutStart(r)
    \/ \E token \in {NoToken} \cup Tokens : RefreshTokenStart(r, token)
    \/ \E email \in Emails : ForgotPasswordStart(r, email)
    \/ \E email \in Emails, otp \in Otps : VerifyOtpStart(r, email, otp)
    \/ \E email \in Emails, p \in Passwords \cup {OtherPassword} :
          ResetPasswordStart(r, email, p)

SessionStep(r) ==
    \/ SignupStep(r)
    \/ UpdateUserFind(r)
    \/ UpdateUserWrite(r)
    \/ UpdateUserReload(r)
    \/ LoginFind(r)
    \/ LogoutRun(r)
    \/ RefreshTokenDecode(r)
    \/ ForgotPasswordFind(r)
    \/ VerifyOtpFind(r)
    \/ ResetPasswordFind(r)

NextSessionSeq == \E r \in Req : (Quiescent /\ SessionBegin(r)) \/ SessionStep(r)

SpecSessionSeq == InitAccount /\ [][NextSessionSeq]_vars

\* ------------------------------------------------------------- sessions: claims
\* C23: a refresh token that has not expired is accepted by the refresh
\* endpoint in every state, so also after a refresh or a logout; and refresh
\* and logout write nothing to the store.
C23_UnexpiredRefreshTokenAccepted ==
    [][\A r \in Req :
          /\ At(r, "refresh_token", "decode") /\ Stepped(r)
             /\ req[r].args.token \in Tokens
             /\ req[r].args.token.type = "refresh"
             /\ ~req[r].args.token.expired
             => last'.res = "OK"
          /\ req[r].op \in {"refresh_token", "logout"} /\ Stepped(r) => db' = db]_vars

FlagsBegin(r) ==
    \E t \in Teachers, c \in OwnerCourseIds :
       \/ CreateModuleStart(r, t, c)
       \/ CreateTemplateStart(r, t, c)
       \/ UpdateCourseStart(r, t, c, MaxCapacity, None)

FlagsStep(r) ==
    \/ CreateModuleFindCourse(r)
    \/ CreateModuleFindLast(r)
    \/ CreateModuleInsert(r)
    \/ CreateModuleSetFlag(r)
    \/ CreateTemplateFindCourse(r)
    \/ CreateTemplateFindExisting(r)
    \/ CreateTemplateInsert(r)
    \/ CreateTemplateUpdateCourse(r)
    \/ UpdateCourseFind(r)
    \/ UpdateCourseWrite(r)

NextFlags == \E r \in Req : FlagsBegin(r) \/ FlagsStep(r)

SpecFlags == InitOwner /\ [][NextFlags]_vars

\* A create request for course c has inserted and not yet set the flag.
SettingFlag(c) ==
    \E r \in Req :
       /\ \/ At(r, "create_module", "set_flag")
          \/ At(r, "create_certificate_template", "update_course")
       /\ req[r].args.course_id = c

\* C24: for a course with no create request between its insert and its flag
\* update, hasModules is true exactly when the course has a module and
\* certificateOffered is true exactly when it has a certificate template.
C24_FlagsMatchContent ==
    \A d \in db.courses :
       ~SettingFlag(d.id)
       => /\ d.hasModules <=> ModulesOf(d.id) # {}
          /\ d.certificateOffered <=> TemplatesOf(d.id) # {}

\* A course that had neither has got a module and a template, its flags are
\* set and no request is running.
C24_Witness ==
    /\ Quiescent
    /\ \E d \in db.courses :
          /\ ModulesOf(d.id) # {} /\ d.hasModules
          /\ TemplatesOf(d.id) # {} /\ d.certificateOffered
          /\ \A m \in OwnerDb.modules : m.course_id # d.id

\* ------------------------------------------------------------- notifications
\* (app/api/v1/endpoints/notifications.py)
NotificationIds == {d.id : d \in db.notifications}

MarkReadStart(r, u, n) ==
    /\ Authenticated(u)
    /\ Begin(r, "mark_read", "find", u, [notification_id |-> n])

\* The lookup without its recipient_id condition.
OwnNotificationsAnyRecipient(n, u) == {d \in db.notifications : d.id = n}

\* find_one({"_id": ..., "recipient_id": current_user.id})
OwnNotifications(n, u) == {d \in db.notifications : d.id = n /\ d.recipient_id = u}

MarkReadFind(r) ==
    /\ At(r, "mark_read", "find")
    /\ IF OwnNotifications(req[r].args.notification_id, req[r].user) = {}
       THEN Finish(r, "NotFound")
       ELSE Goto(r, "update")
    /\ ReadOnly

SetRead(d) == [d EXCEPT !.read = TRUE]

MarkReadUpdate(r) ==
    /\ At(r, "mark_read", "update")
    /\ UpdateById("notifications", req[r].args.notification_id,
                  [d \in db.notifications |-> SetRead(d)])
    /\ Finish(r, "OK")

MarkAllReadStart(r, u) ==
    /\ Authenticated(u)
    /\ Begin(r, "mark_all_read", "update", u, NoDoc)

\* update_many({"recipient_id": current_user.id}, {"$set": {"read": True}})
MarkAllReadUpdate(r) ==
    /\ At(r, "mark_all_read", "update")
    /\ db' = [db EXCEPT !.notifications =
                 {IF d.recipient_id = req[r].user THEN SetRead(d) ELSE d : d \in @}]
    /\ UNCHANGED <<nextId, now>>
    /\ Finish(r, "OK")

\* The model stops deleting once ordinals have passed this.
MaxDeleted == 2

DeleteNotificationStart(r, u, n) ==
    /\ Authenticated(u)
    /\ nextId["notifications"] <= MaxDeleted
    /\ Begin(r, "delete_notification", "find", u, [notification_id |-> n])

DeleteNotificationFind(r) ==
    /\ At(r, "delete_notification", "find")
    /\ IF OwnNotifications(req[r].args.notification_id, req[r].user) = {}
       THEN Finish(r, "NotFound")
       ELSE Goto(r, "delete")
    /\ ReadOnly

\* delete_one({"_id": ...})
DeleteNotificationDelete(r) ==
    /\ At(r, "delete_notification", "delete")
    /\ db' = [db EXCEPT !.notifications =
                 {d \in @ : d.id # req[r].args.notification_id}]
    /\ nextId' = [nextId EXCEPT !["notifications"] =
                     IF @ <= req[r].args.notification_id[5]
                     THEN req[r].args.notification_id[5] + 1 ELSE @]
    /\ UNCHANGED now
    /\ Finish(r, "OK")

\* Uploads fill the inboxes of the enrolled students, who read and delete,
\* their requests interleaved.
InboxUsers == 1..NumEnrolled

InboxBegin(r) ==
    \/ \E t \in Owners, c \in CourseIds :
          Quiescent /\ UploadMaterialStart(r, t, c, None, "link")
    \/ \E u \in InboxUsers :
          \/ MarkAllReadStart(r, u)
          \/ \E n \in NotificationIds :
                \/ MarkReadStart(r, u, n)
                \/ DeleteNotificationStart(r, u, n)

InboxStep(r) ==
    \/ UploadMaterialFindCourse(r)
    \/ UploadMaterialInsert(r)
    \/ UploadMaterialList(r)
    \/ UploadMaterialNotify(r)
    \/ MarkReadFind(r)
    \/ MarkReadUpdate(r)
    \/ MarkAllReadUpdate(r)
    \/ DeleteNotificationFind(r)
    \/ DeleteNotificationDelete(r)

NextInbox == \E r \in Req : InboxBegin(r) \/ InboxStep(r)

SpecInbox == InitNotify /\ [][NextInbox]_vars

Readers(u) ==
    {r \in Req : /\ req[r].op \in {"mark_read", "mark_all_read"}
                 /\ req[r].user = u /\ Stepped(r)}

\* C25: a notification is inserted with read = FALSE; afterwards none of its
\* fields changes except read, which only goes from FALSE to TRUE and only in
\* a step of mark-read or mark-all-read of its recipient; mark-read or delete
\* of another user's notification ends with NotFound and writes nothing, and
\* mark-all-read leaves the notifications of other users as they were.
C25_OnlyReadChanges ==
    [][/\ \A e \in db'.notifications :
             IF e.id \in NotificationIds
             THEN \E d \in db.notifications :
                     /\ d.id = e.id
                     /\ [e EXCEPT !.read = d.read] = d
                     /\ d.read => e.read
                     /\ e.read # d.read => Readers(d.recipient_id) # {}
             ELSE ~e.read
       /\ \A r \in Req :
             /\ req[r].op \in {"mark_read", "delete_notification"}
             /\ req[r].pc = "find"
             /\ Stepped(r)
             /\ \E d \in db.notifications :
                   d.id = req[r].args.notification_id /\ d.recipient_id # req[r].user
             => db' = db /\ last'.res = "NotFound"
       /\ \A r \in Req :
             At(r, "mark_all_read", "update") /\ Stepped(r)
             => \A d \in db.notifications :
                   d.recipient_id # req[r].user => d \in db'.notifications]_vars

C25_Witness ==
    /\ last.op = "mark_read" /\ last.res = "NotFound"
    /\ \E d \in db.notifications : d.id = last.args.notification_id
    /\ \E d \in db.notifications : d.read
    /\ \E d \in db.notifications : ~d.read
    /\ nextId["notifications"] > 1

\* ------------------------------------------------------------- course codes
\* Teachers create courses and change their codes, one request after the other.
MaxCodeCourses == 2

CodeChoices == 1..(NumCodes + 1)

CodeCourseIds == 1..MaxCodeCourses

CodesBegin(r) ==
    \E t \in Teachers, code \in CodeChoices :
       \/ /\ nextId["courses"] <= MaxCodeCourses
          /\ CreateCourseBegin(r, t, code, MaxCapacity)
       \/ \E c \in CodeCourseIds : UpdateCourseStart(r, t, c, None, code)

CodesStep(r) ==
    \/ CreateCourseFindCode(r)
    \/ CreateCourseInsert(r)
    \/ UpdateCourseFind(r)
    \/ UpdateCourseWrite(r)

NextCodesSeq == \E r \in Req : (Quiescent /\ CodesBegin(r)) \/ CodesStep(r)

SpecCodesSeq == Init /\ [][NextCodesSeq]_vars

\* C26: no two courses have the same courseCode after any sequence of
\* create_course and update_course calls, and create_course with a code that
\* a course already has ends with Conflict and inserts nothing.
C26_CourseCodeUnique ==
    /\ [](\A c, d \in db.courses : c.courseCode = d.courseCode => c = d)
    /\ [][\A r \in Req :
             /\ At(r, "create_course", "find_code")
             /\ Stepped(r)
             /\ \E c \in db.courses : c.courseCode = req[r].args.courseCode
             => db' = db /\ last'.res = "Conflict"]_vars

\* C27: every course has studentsEnrolled <= maxStudents and at most
\* maxStudents enrollments, also after interleaved enroll requests of
\* different students and after update_course has changed maxStudents.
C27_CapacityRespected ==
    \A d \in db.courses :
        /\ d.studentsEnrolled <= d.maxStudents
        /\ Cardinality(EnrollmentsIn(d.id)) <= d.maxStudents

\* A delete_assignment of assignment a has removed a and not yet its submissions.
DeletingSubmissions(a) ==
    \E r \in Req : /\ At(r, "delete_assignment", "delete_submissions")
                   /\ req[r].args.assignment_id = a

\* C28: every stored submission references an assignment that exists; once
\* delete_assignment has completed, no submission of the deleted assignment
\* remains or is created, also when a submit_assignment for it interleaves
\* with the delete.
C28_NoOrphanSubmission ==
    \A s \in db.submissions :
        \/ \E a \in db.assignments : a.id = s.assignment_id
        \/ DeletingSubmissions(s.assignment_id)

====
